---- MODULE Spec2Model ----
(***************************************************************************)
(* bevy_timewarp: frame-indexed history buffers and the rollback state     *)
(* machine.  One tracked component type T (an integer "health") on a small *)
(* set of entities; a tick of the schedule is the sequence of system sets  *)
(* configured in lib.rs, one action per set.                               *)
(***************************************************************************)
EXTENDS Integers, Sequences, FiniteSets, TLC

(* ------------------------------ bounds --------------------------------- *)
\* the clock never advances beyond this frame
MaxFrame == 5
\* number of snapshot writes in a run without host inserts and removes
MaxSnapshots == 2
\* number of host inserts and removes in a run with fewer snapshot writes
MaxHostOps == 2
\* longest request queue tried by the consolidation specification
MaxReqs == 3
\* how far beyond the clock a snapshot's frame may lie in the runs with early snapshots
MaxAhead == 6
\* number of calls made on one ComponentHistory or FrameBuffer taken alone
MaxCalls == 4

(* ------------------------- configuration ------------------------------- *)
\* a second timestep the host may have configured
SlowPeriod == 2
\* TimewarpConfig.rollback_window as configured for a run
RollbackWindow == 3
\* capacity factor of ServerSnapshot buffers
SnapshotCapacityFactor == 60
\* the fixed timestep of a normal tick (1/64 s, in units of 1/64 s)
NormalPeriod == 1
\* Duration::ZERO, the fast-forward timestep
ZeroPeriod == 0
\* health of a freshly spawned enemy
SpawnHealth == 10
\* the authoritative health value the server reports in the tests
ServerHealth == 100

Entities == {1, 2}
Strategies == {"Oldest", "Newest"}

(* ------------------------------ Option --------------------------------- *)
None == <<>>
Some(v) == <<v>>
IsSome(o) == o # <<>>
Unwrap(o) == o[1]

\* u32::saturating_sub
SatSub(a, b) == IF a > b THEN a - b ELSE 0

(* ---------------------------- FrameBuffer ------------------------------ *)
\* entries[1] is the front of the VecDeque, i.e. the value of front_frame
FB_with_capacity(len) == [entries |-> <<>>, front_frame |-> 0, capacity |-> len]

FB_newest_frame(fb) == fb.front_frame

FB_oldest_frame(fb) == SatSub(fb.front_frame, fb.capacity + 1)

\* index into the deque (0-based) or -1 for Option::None
FB_index(fb, frame) ==
    IF frame > fb.front_frame THEN -1
    ELSE IF frame <= SatSub(fb.front_frame, fb.capacity) THEN -1
    ELSE fb.front_frame - frame

FB_get(fb, frame) ==
    LET i == FB_index(fb, frame)
    IN  IF i = -1 THEN None
        ELSE IF i < Len(fb.entries) THEN fb.entries[i + 1]
        ELSE None

\* n blanks pushed to the front
Blanks(n) == [i \in 1..n |-> None]

Truncate(s, n) == IF Len(s) > n THEN SubSeq(s, 1, n) ELSE s

\* variant: no frame is too old for insert
FB_too_old_never(fb, frame) == FALSE

\* FrameTooOld: the write is rejected
FB_too_old(fb, frame) == frame < FB_oldest_frame(fb)

\* variant: insert that pushes the value without filling the gap with None entries
FB_insert_no_blanks(fb, frame, value) ==
    IF FB_too_old(fb, frame) THEN fb
    ELSE LET i == FB_index(fb, frame)
         IN  IF i # -1
             THEN IF i < Len(fb.entries)
                  THEN [fb EXCEPT !.entries[i + 1] = Some(value)]
                  ELSE fb
             ELSE [fb EXCEPT
                     !.entries = Truncate(<<Some(value)>> \o fb.entries, fb.capacity),
                     !.front_frame = frame]

\* variant: insert that advances front_frame by one instead of setting it to the frame
FB_insert_front_plus_one(fb, frame, value) ==
    IF FB_too_old(fb, frame) THEN fb
    ELSE LET i == FB_index(fb, frame)
         IN  IF i # -1
             THEN IF i < Len(fb.entries)
                  THEN [fb EXCEPT !.entries[i + 1] = Some(value)]
                  ELSE fb
             ELSE LET gap == IF frame > fb.front_frame + 1
                             THEN frame - fb.front_frame - 1 ELSE 0
                  IN  [fb EXCEPT
                         !.entries = Truncate(<<Some(value)>> \o Blanks(gap) \o fb.entries,
                                              fb.capacity),
                         !.front_frame = fb.front_frame + 1]

FB_insert(fb, frame, value) ==
    IF FB_too_old(fb, frame) THEN fb
    ELSE LET i == FB_index(fb, frame)
         IN  IF i # -1
             THEN IF i < Len(fb.entries)
                  THEN [fb EXCEPT !.entries[i + 1] = Some(value)]
                  ELSE fb
             ELSE LET gap == IF frame > fb.front_frame + 1
                             THEN frame - fb.front_frame - 1 ELSE 0
                  IN  [fb EXCEPT
                         !.entries = Truncate(<<Some(value)>> \o Blanks(gap) \o fb.entries,
                                              fb.capacity),
                         !.front_frame = frame]

\* VecDeque::drain(0..index) panics when index is beyond the length of the deque
FB_remove_panics(fb, frame) ==
    /\ frame < fb.front_frame
    /\ FB_index(fb, frame) # -1
    /\ FB_index(fb, frame) > Len(fb.entries)

FB_remove_entries_newer_than(fb, frame) ==
    IF frame >= fb.front_frame THEN fb
    ELSE LET i == FB_index(fb, frame)
         IN  [fb EXCEPT
                !.entries = IF i # -1 THEN SubSeq(fb.entries, i + 1, Len(fb.entries))
                            ELSE fb.entries,
                !.front_frame = frame]

(* -------------------------- ComponentHistory --------------------------- *)
\* alive_ranges: sequence of <<start, end>>, end an Option, exclusive
CH_with_capacity(len, birth_frame, component) ==
    [values |-> FB_insert(FB_with_capacity(len), birth_frame, component),
     alive_ranges |-> << <<birth_frame, None>> >>,
     correction_logging_enabled |-> FALSE]

CH_at_frame(ch, frame) == FB_get(ch.values, frame)

CH_insert(ch, frame, val) == [ch EXCEPT !.values = FB_insert(ch.values, frame, val)]

CH_alive_at_frame(ch, frame) ==
    \E i \in 1..Len(ch.alive_ranges) :
        /\ ch.alive_ranges[i][1] <= frame
        /\ (ch.alive_ranges[i][2] = None \/ Unwrap(ch.alive_ranges[i][2]) > frame)

\* the assert!(values.get(frame).is_some()) of report_birth_at_frame fails
CH_birth_panics(ch, frame) ==
    /\ ~CH_alive_at_frame(ch, frame)
    /\ CH_at_frame(ch, frame) = None

CH_report_birth_at_frame(ch, frame) ==
    IF CH_alive_at_frame(ch, frame) THEN ch
    ELSE [ch EXCEPT !.alive_ranges = Append(ch.alive_ranges, <<frame, None>>)]

\* variant: report_death_at_frame without its early return for a history not alive at frame
CH_report_death_unguarded(ch, frame) ==
    [ch EXCEPT !.alive_ranges[Len(ch.alive_ranges)][2] = Some(frame)]

CH_report_death_at_frame(ch, frame) ==
    IF ~CH_alive_at_frame(ch, frame) THEN ch
    ELSE [ch EXCEPT !.alive_ranges[Len(ch.alive_ranges)][2] = Some(frame)]

\* an entity that has no timewarp components yet
NoCH == [values |-> FB_with_capacity(0), alive_ranges |-> <<>>,
         correction_logging_enabled |-> FALSE]
NoSS == FB_with_capacity(0)


(* ------------------------------- state --------------------------------- *)
VARIABLES
    pc,             \* the system set the schedule runs next
    halted,         \* "" or the panic that stopped the run
    clock,          \* GameClock.frame
    fx,             \* the fixed timestep (FixedTime.period)
    rb,             \* Option<Rollback>: [start, end, original_period]
    prevRb,         \* Option<PreviousRollback>
    events,         \* Events<RollbackRequest>, the requested frames in arrival order
    stats,          \* RollbackStats
    config,         \* TimewarpConfig: consolidation_strategy, force_rollback_always
    comp,           \* entity -> Option<T>, the live component
    tw,             \* entity -> has ComponentHistory<T> and ServerSnapshot<T>
    ch,             \* entity -> ComponentHistory<T>
    ss,             \* entity -> ServerSnapshot<T>.values
    ssChanged,      \* entity -> Changed<ServerSnapshot<T>> as seen by apply_snapshots
    addedT,         \* entity -> Added<T> as seen by the postfix systems
    removedT,       \* entity -> in RemovedComponents<T>
    inputs,         \* number of external inputs so far: snapshots, host_ops
    budget,         \* the parameters of this run: how many snapshots, host operations and
                    \* DespawnMarkers it has, how far ahead of the clock a snapshot may
                    \* be, its last frame, and whether T is registered with correction
                    \* logging
    exists,         \* entity -> the entity has not been despawned
    marker,         \* entity -> its DespawnMarker: present or not, and its Option frame
    markerAdded,    \* entity -> Added<DespawnMarker> not yet seen by Postfix::Components
    corr,           \* entity -> Option: its TimewarpCorrection<T>
    icaf,           \* entity -> Option: its InsertComponentAtFrame<T> (frame, component),
                    \* present from its insertion until a system unpacks it
    abaf,           \* entity -> Option: its AssembleBlueprintAtFrame<T> (frame, component)
                    \* and whether request_rollback_for_blueprints has yet to see it
    unpacked,       \* ghost: entity -> Option: the last InsertComponentAtFrame unpacked for
                    \* it, the clock then, and what the entity and its history held then
    asked,          \* ghost: Option: the last call of is_within_rollback_window, its
                    \* arguments and what it answered
    trig,           \* entity -> Option: the snapshot (frame, value) examined in the prefix
                    \* of this tick or of the tick that started the running episode,
                    \* the value history stored for that frame before, and whether a
                    \* request was raised for it
    log             \* game-logic executions of the current episode: <<frame, in rollback>>

vars == <<pc, halted, clock, fx, rb, prevRb, events, stats, config, comp, tw, ch, ss,
          ssChanged, addedT, removedT, inputs, budget, exists, marker, markerAdded, corr,
          icaf, abaf, unpacked, asked, trig, log>>

despawning == <<exists, marker, markerAdded>>

wrappers == <<icaf, abaf, unpacked>>

\* is_within_rollback_window has not been called
NotAsked == <<>>

\* an entity without a DespawnMarker
NoMarker == [present |-> FALSE, frame |-> None]

world == <<comp, tw, ch, ss, ssChanged, addedT, removedT>>
control == <<clock, fx, rb, prevRb, events, stats>>

Rollback_new(first_frame_to_resimulate, last_frame_to_resimulate) ==
    [start |-> first_frame_to_resimulate, end |-> last_frame_to_resimulate,
     original_period |-> None]

\* the game logic of the tests: take_damage
take_damage(health) == health - 1

\* a run has snapshot writes only, or one snapshot write fewer and host operations
\* a run with no DespawnMarker, no correction logging, no snapshot ahead of the clock,
\* no InsertComponentAtFrame, no blueprint, no Anachronous entity, and every entity
\* spawned with its value
PlainRun(snapshots, host_ops) ==
    [snapshots |-> snapshots, host_ops |-> host_ops, despawns |-> 0, ahead |-> 0,
     frames |-> MaxFrame, correction_logging |-> FALSE, icafs |-> 0, blueprints |-> 0,
     bare |-> {}, frames_behind |-> [e \in Entities |-> 0]]

Budgets ==
    { PlainRun(MaxSnapshots, 0), PlainRun(MaxSnapshots - 1, MaxHostOps) }

\* runs in which snapshots may be for frames the client has not simulated yet
BudgetsAhead == { [b EXCEPT !.ahead = MaxAhead] : b \in Budgets }

\* TimewarpConfig::new
DefaultConfig == [consolidation_strategy |-> "Newest", force_rollback_always |-> FALSE]

\* the configurations tried: each strategy, each setting of force_rollback_always and
\* each timestep occurs in one of them
Configurations ==
    { <<[DefaultConfig EXCEPT !.consolidation_strategy = "Oldest"], NormalPeriod>>,
      <<[DefaultConfig EXCEPT !.force_rollback_always = TRUE], NormalPeriod>>,
      <<DefaultConfig, SlowPeriod>> }

Start(budgets) ==
    /\ budget \in budgets
    /\ pc = "first"
    /\ halted = ""
    /\ clock = 0
    /\ \E c \in Configurations : config = c[1] /\ fx = c[2]
    /\ rb = None
    /\ prevRb = None
    /\ events = <<>>
    /\ stats = [num_rollbacks |-> 0, range_faults |-> 0, non_rollback_updates |-> 0]
    /\ comp = [e \in Entities |-> IF e \in budget.bare THEN None ELSE Some(SpawnHealth)]
    /\ tw = [e \in Entities |-> FALSE]
    /\ ch = [e \in Entities |-> NoCH]
    /\ ss = [e \in Entities |-> NoSS]
    /\ ssChanged = [e \in Entities |-> FALSE]
    /\ addedT = [e \in Entities |-> e \notin budget.bare]
    /\ removedT = [e \in Entities |-> FALSE]
    /\ inputs = [snapshots |-> 0, host_ops |-> 0, despawns |-> 0, icafs |-> 0,
                blueprints |-> 0]
    /\ trig = [e \in Entities |-> None]
    /\ log = <<>>
    /\ exists = [e \in Entities |-> TRUE]
    /\ marker = [e \in Entities |-> NoMarker]
    /\ markerAdded = [e \in Entities |-> FALSE]
    /\ corr = [e \in Entities |-> None]
    /\ icaf = [e \in Entities |-> None]
    /\ abaf = [e \in Entities |-> None]
    /\ unpacked = [e \in Entities |-> None]
    /\ asked = NotAsked

Init == Start(Budgets)

Running == halted = ""
BetweenTicks == Running /\ pc = "first" /\ rb = None

(* --------------------------- external inputs --------------------------- *)
\* the values the network layer may report for a simulated frame f of entity e
SnapshotValues(e, f) ==
    {ServerHealth} \cup (IF IsSome(CH_at_frame(ch[e], f))
                         THEN {Unwrap(CH_at_frame(ch[e], f))} ELSE {})

\* ServerSnapshot::insert through a Mut<ServerSnapshot<T>>
SnapshotArrives(e, f, v) ==
    /\ BetweenTicks
    /\ inputs.snapshots < budget.snapshots
    /\ tw[e]
    /\ ss' = [ss EXCEPT ![e] = FB_insert(ss[e], f, v)]
    /\ ssChanged' = [ssChanged EXCEPT ![e] = TRUE]
    /\ inputs' = [inputs EXCEPT !.snapshots = @ + 1]
    /\ UNCHANGED <<pc, halted, control, config, budget, comp, tw, ch, addedT, removedT, trig, log>>
    /\ UNCHANGED <<despawning, corr, wrappers, asked>>

\* the host removes T from an entity
HostRemove(e) ==
    /\ BetweenTicks
    /\ inputs.host_ops < budget.host_ops
    /\ IsSome(comp[e])
    /\ comp' = [comp EXCEPT ![e] = None]
    /\ removedT' = [removedT EXCEPT ![e] = TRUE]
    /\ inputs' = [inputs EXCEPT !.host_ops = @ + 1]
    /\ UNCHANGED <<pc, halted, control, config, budget, tw, ch, ss, ssChanged, addedT, trig, log>>
    /\ UNCHANGED <<despawning, corr, wrappers, asked>>

\* the host gives T back to an entity
HostInsert(e) ==
    /\ BetweenTicks
    /\ inputs.host_ops < budget.host_ops
    /\ exists[e]
    /\ comp[e] = None
    /\ comp' = [comp EXCEPT ![e] = Some(SpawnHealth)]
    /\ addedT' = [addedT EXCEPT ![e] = TRUE]
    /\ inputs' = [inputs EXCEPT !.host_ops = @ + 1]
    /\ UNCHANGED <<pc, halted, control, config, budget, tw, ch, ss, ssChanged, removedT, trig, log>>
    /\ UNCHANGED <<despawning, corr, wrappers, asked>>

\* the frames an InsertComponentAtFrame may name: a past frame, the current one, the next
IcafFrames == 1..(clock + 1)

\* the host inserts InsertComponentAtFrame::<T>::new(f, v) on an entity
HostInsertAtFrame(e, f, v) ==
    /\ BetweenTicks
    /\ inputs.icafs < budget.icafs
    /\ exists[e] /\ icaf[e] = None
    /\ icaf' = [icaf EXCEPT ![e] = Some([frame |-> f, component |-> v])]
    /\ inputs' = [inputs EXCEPT !.icafs = @ + 1]
    /\ UNCHANGED <<pc, halted, control, config, budget, world, despawning, corr, abaf,
                   unpacked, asked, trig, log>>

\* the frames an AssembleBlueprintAtFrame may name: past, current, next, the one after
BlueprintFrames == 1..(clock + 2)

\* the host inserts AssembleBlueprintAtFrame::<T>::new(f, v) on an entity
HostWrapBlueprint(e, f, v) ==
    /\ BetweenTicks
    /\ inputs.blueprints < budget.blueprints
    /\ exists[e] /\ abaf[e] = None
    /\ abaf' = [abaf EXCEPT ![e] = Some([frame |-> f, component |-> v, added |-> TRUE])]
    /\ inputs' = [inputs EXCEPT !.blueprints = @ + 1]
    /\ UNCHANGED <<pc, halted, control, config, budget, world, despawning, corr, icaf,
                   unpacked, asked, trig, log>>

\* the frames a DespawnMarker may be given: DespawnMarker::new() has none,
\* DespawnMarker::for_frame names the frame about to be simulated or an earlier one
MarkerFrames == {None} \cup {Some(f) : f \in 1..(clock + 1)}

\* the host inserts a DespawnMarker on an entity
HostDespawn(e, m) ==
    /\ BetweenTicks
    /\ inputs.despawns < budget.despawns
    /\ exists[e] /\ ~marker[e].present
    /\ marker' = [marker EXCEPT ![e] = [present |-> TRUE, frame |-> m]]
    /\ markerAdded' = [markerAdded EXCEPT ![e] = TRUE]
    /\ inputs' = [inputs EXCEPT !.despawns = @ + 1]
    /\ UNCHANGED <<pc, halted, control, config, budget, world, exists, corr, wrappers, asked, trig,
                   log>>

(* ---------------------------- Prefix::First ---------------------------- *)
\* record_component_death, run_if(not(resource_exists::<Rollback>()))
record_component_death(e) ==
    IF removedT[e] /\ tw[e] THEN CH_report_death_at_frame(ch[e], clock) ELSE ch[e]

PrefixFirst ==
    /\ Running /\ pc = "first"
    /\ IF rb = None
       THEN /\ ch' = [e \in Entities |-> record_component_death(e)]
            /\ removedT' = [e \in Entities |-> FALSE]
       ELSE UNCHANGED <<ch, removedT>>
    /\ pc' = "in_rollback"
    /\ UNCHANGED <<halted, control, config, budget, comp, tw, ss, ssChanged, addedT, inputs, trig, log>>
    /\ UNCHANGED <<despawning, corr, wrappers, asked>>


(* -------------------------- Prefix::InRollback ------------------------- *)
\* check_for_rollback_completion: the clock reached range.end
rollback_complete(r) == r.end = clock

\* faulty variant: the default timestep instead of the saved one
restored_period_default(r) == NormalPeriod

\* fx.period = rb.original_period.unwrap()
restored_period(r) == Unwrap(r.original_period)

\* rebirth_components_during_rollback: Without<T>, alive at the current frame
needs_rebirth(e) == tw[e] /\ comp[e] = None /\ CH_alive_at_frame(ch[e], clock)

rebirth_panics(e) == needs_rebirth(e) /\ CH_at_frame(ch[e], clock) = None

PrefixInRollback ==
    /\ Running /\ pc = "in_rollback"
    /\ pc' = "apply_snapshots"
    /\ IF rb = None
       THEN UNCHANGED <<halted, fx, rb, prevRb, comp, addedT>>
       ELSE LET r == Unwrap(rb)
            IN  IF \E e \in Entities : rebirth_panics(e)
                THEN /\ halted' = "no comp history during rebirth"
                     /\ UNCHANGED <<fx, rb, prevRb, comp, addedT>>
                ELSE IF rollback_complete(r) /\ r.original_period = None
                THEN /\ halted' = "original_period.unwrap()"
                     /\ UNCHANGED <<fx, rb, prevRb, comp, addedT>>
                ELSE /\ halted' = halted
                     /\ IF rollback_complete(r)
                        THEN /\ prevRb' = rb
                             /\ fx' = restored_period(r)
                             /\ rb' = None
                        ELSE UNCHANGED <<fx, rb, prevRb>>
                     /\ comp' = [e \in Entities |->
                                   IF needs_rebirth(e) THEN CH_at_frame(ch[e], clock)
                                   ELSE comp[e]]
                     /\ addedT' = [e \in Entities |-> addedT[e] \/ needs_rebirth(e)]
    /\ UNCHANGED <<clock, events, stats, config, budget, tw, ch, ss, ssChanged, removedT, inputs,
                   trig, log>>
    /\ UNCHANGED <<despawning, corr, wrappers, asked>>

(* ------------------------ Prefix::NotInRollback ------------------------ *)
snap_frame(e) == FB_newest_frame(ss[e])
comp_from_snapshot(e) == FB_get(ss[e], snap_frame(e))

\* faulty variant: the comparison inverted
prediction_confirmed_inverted(stored, snap, forced) ==
    IsSome(stored) /\ ~forced /\ stored # snap

\* a correct prediction: the stored value equals the snapshot's
prediction_confirmed(stored, snap, forced) == IsSome(stored) /\ ~forced /\ stored = snap

\* variant: a snapshot for the current frame is treated like any other
SnapKind_no_latecomer(e) ==
    IF ~(tw[e] /\ ssChanged[e]) THEN "not_changed"
    ELSE IF snap_frame(e) = 0 THEN "no_data"
    ELSE IF comp_from_snapshot(e) = None THEN "panic_no_value"
    ELSE IF prediction_confirmed(CH_at_frame(ch[e], snap_frame(e)), comp_from_snapshot(e),
                                 config.force_rollback_always) THEN "confirmed"
    ELSE IF FB_too_old(ch[e].values, snap_frame(e)) THEN "panic_too_old"
    ELSE IF snap_frame(e) < clock THEN "rollback"
    ELSE "future"

\* what apply_snapshots_and_maybe_rollback does with entity e
SnapKind(e) ==
    IF ~(tw[e] /\ ssChanged[e]) THEN "not_changed"
    ELSE IF snap_frame(e) = 0 THEN "no_data"
    ELSE IF comp_from_snapshot(e) = None THEN "panic_no_value"
    ELSE IF snap_frame(e) = clock THEN "latecomer"
    ELSE IF prediction_confirmed(CH_at_frame(ch[e], snap_frame(e)), comp_from_snapshot(e),
                                 config.force_rollback_always) THEN "confirmed"
    ELSE IF FB_too_old(ch[e].values, snap_frame(e)) THEN "panic_too_old"
    ELSE IF snap_frame(e) < clock THEN "rollback"
    ELSE "future"

\* RollbackRequest::resimulate_this_frame_onwards(snap_frame + 1)
requested_frame(e) == snap_frame(e) + 1

\* requests in query order
RECURSIVE RequestsFrom(_)
RequestsFrom(e) ==
    IF e \notin Entities THEN <<>>
    ELSE (IF SnapKind(e) = "rollback" THEN <<requested_frame(e)>> ELSE <<>>)
         \o RequestsFrom(e + 1)

FirstEntity == CHOOSE e \in Entities : \A o \in Entities : e <= o

CountKind(kind) == Cardinality({e \in Entities : SnapKind(e) = kind})

ApplySnapshots ==
    /\ Running /\ pc = "apply_snapshots"
    /\ pc' = "consolidate"
    /\ IF rb # None
       THEN UNCHANGED <<halted, events, stats, comp, ch, ssChanged, addedT, trig>>
       ELSE IF \E e \in Entities : SnapKind(e) \in {"panic_no_value", "panic_too_old"}
       THEN /\ halted' = "apply_snapshots_and_maybe_rollback"
            /\ UNCHANGED <<events, stats, comp, ch, ssChanged, addedT, trig>>
       ELSE /\ halted' = halted
            /\ comp' = [e \in Entities |->
                          IF SnapKind(e) = "latecomer" THEN comp_from_snapshot(e)
                          ELSE comp[e]]
            /\ addedT' = [e \in Entities |->
                          addedT[e] \/ (SnapKind(e) = "latecomer" /\ comp[e] = None)]
            /\ ch' = [e \in Entities |->
                          IF SnapKind(e) \in {"rollback", "future"}
                          THEN CH_insert(ch[e], snap_frame(e), Unwrap(comp_from_snapshot(e)))
                          ELSE ch[e]]
            /\ stats' = [stats EXCEPT !.non_rollback_updates = @ + CountKind("latecomer")]
            /\ events' = events \o RequestsFrom(FirstEntity)
            /\ ssChanged' = [e \in Entities |-> ssChanged[e] /\ ~tw[e]]
            /\ trig' = [e \in Entities |->
                          IF SnapKind(e) \in {"latecomer", "confirmed", "rollback", "future"}
                          THEN Some([frame |-> snap_frame(e),
                                     value |-> Unwrap(comp_from_snapshot(e)),
                                     stored |-> CH_at_frame(ch[e], snap_frame(e)),
                                     requested |-> SnapKind(e) = "rollback"])
                          ELSE None]
    /\ UNCHANGED <<clock, fx, rb, prevRb, config, budget, tw, ss, removedT, inputs, log>>
    /\ UNCHANGED <<despawning, corr, wrappers, asked>>

(* ------------------ Prefix::NotInRollback: wrappers -------------------- *)
\* the query of unpack_icafs_adding_tw_components:
\* Added<InsertComponentAtFrame<T>>, Without<ServerSnapshot<T>>, Without<ComponentHistory<T>>
icaf_adding(e) == icaf[e] # None /\ ~tw[e]

\* the query of unpack_icafs_into_tw_components:
\* Added<InsertComponentAtFrame<T>> with &mut ServerSnapshot<T>, &mut ComponentHistory<T>
icaf_into(e) == icaf[e] # None /\ tw[e]

icaf_frame(e) == Unwrap(icaf[e]).frame

icaf_component(e) == Unwrap(icaf[e]).component

\* ghost: what an unpack system saw of entity e
Unpacking(e) ==
    Some([frame |-> icaf_frame(e), component |-> icaf_component(e), at |-> clock,
          lacking |-> comp[e] = None,
          never |-> ~tw[e],
          rollbacks |-> stats.num_rollbacks,
          before |-> IF tw[e] /\ icaf_frame(e) > 0
                     THEN CH_at_frame(ch[e], icaf_frame(e) - 1) ELSE None])

\* the requests an unpack system sends, in query order
RECURSIVE IcafRequestsFrom(_, _)
IcafRequestsFrom(e, adding) ==
    IF e \notin Entities THEN <<>>
    ELSE (IF /\ IF adding THEN icaf_adding(e) ELSE icaf_into(e)
             /\ icaf_frame(e) < clock
          THEN <<icaf_frame(e) + 1>> ELSE <<>>)
         \o IcafRequestsFrom(e + 1, adding)

\* unpack_icafs_adding_tw_components; its commands are applied at the end of the set
UnpackIcafsAdding ==
    /\ Running /\ pc = "consolidate" /\ rb = None
    /\ \E e \in Entities : icaf_adding(e)
    /\ tw' = [e \in Entities |-> tw[e] \/ icaf_adding(e)]
    /\ ch' = [e \in Entities |->
                IF icaf_adding(e)
                THEN [CH_with_capacity(RollbackWindow, icaf_frame(e),
                                       icaf_component(e))
                         EXCEPT !.correction_logging_enabled = budget.correction_logging]
                ELSE ch[e]]
    /\ ss' = [e \in Entities |->
                IF icaf_adding(e)
                THEN FB_insert(FB_with_capacity(RollbackWindow
                                                    * SnapshotCapacityFactor),
                               icaf_frame(e), icaf_component(e))
                ELSE ss[e]]
    /\ ssChanged' = [e \in Entities |-> ssChanged[e] \/ icaf_adding(e)]
    /\ comp' = [e \in Entities |->
                IF icaf_adding(e) /\ icaf_frame(e) = clock
                THEN Some(icaf_component(e)) ELSE comp[e]]
    /\ addedT' = [e \in Entities |->
                addedT[e] \/ (icaf_adding(e) /\ icaf_frame(e) = clock /\ comp[e] = None)]
    /\ events' = events \o IcafRequestsFrom(FirstEntity, TRUE)
    /\ icaf' = [e \in Entities |-> IF icaf_adding(e) THEN None ELSE icaf[e]]
    /\ unpacked' = [e \in Entities |-> IF icaf_adding(e) THEN Unpacking(e) ELSE unpacked[e]]
    /\ UNCHANGED <<pc, halted, clock, fx, rb, prevRb, stats, config, budget, removedT, inputs,
                   despawning, corr, abaf, asked, trig, log>>

\* the .expect of unpack_icafs_into_tw_components fails
icaf_into_panics(e) ==
    /\ icaf_into(e)
    /\ \/ FB_too_old(ch[e].values, icaf_frame(e))
       \/ FB_too_old(ss[e], icaf_frame(e))

\* unpack_icafs_into_tw_components; not ordered against apply_snapshots_and_maybe_rollback
UnpackIcafsInto ==
    /\ Running /\ pc \in {"apply_snapshots", "consolidate"} /\ rb = None
    /\ \E e \in Entities : icaf_into(e)
    /\ IF \E e \in Entities : icaf_into_panics(e)
       THEN /\ halted' = "unpack_icafs_into_tw_components"
            /\ UNCHANGED <<ch, ss, ssChanged, comp, addedT, events, icaf, unpacked>>
       ELSE /\ halted' = halted
            /\ ch' = [e \in Entities |->
                        IF icaf_into(e)
                        THEN CH_insert(ch[e], icaf_frame(e), icaf_component(e)) ELSE ch[e]]
            /\ ss' = [e \in Entities |->
                        IF icaf_into(e)
                        THEN FB_insert(ss[e], icaf_frame(e), icaf_component(e)) ELSE ss[e]]
            /\ ssChanged' = [e \in Entities |-> ssChanged[e] \/ icaf_into(e)]
            /\ comp' = [e \in Entities |->
                        IF icaf_into(e) /\ icaf_frame(e) = clock
                        THEN Some(icaf_component(e)) ELSE comp[e]]
            /\ addedT' = [e \in Entities |->
                        addedT[e] \/ (icaf_into(e) /\ icaf_frame(e) = clock /\ comp[e] = None)]
            /\ events' = events \o IcafRequestsFrom(FirstEntity, FALSE)
            /\ icaf' = [e \in Entities |-> IF icaf_into(e) THEN None ELSE icaf[e]]
            /\ unpacked' = [e \in Entities |->
                              IF icaf_into(e) THEN Unpacking(e) ELSE unpacked[e]]
    /\ UNCHANGED <<pc, clock, fx, rb, prevRb, stats, config, budget, tw, removedT, inputs,
                   despawning, corr, abaf, asked, trig, log>>

\* Added<AssembleBlueprintAtFrame<T>>, not yet seen by request_rollback_for_blueprints
abaf_added(e) == abaf[e] # None /\ Unwrap(abaf[e]).added

RECURSIVE BlueprintRequestsFrom(_)
BlueprintRequestsFrom(e) ==
    IF e \notin Entities THEN <<>>
    ELSE (IF abaf_added(e) /\ Unwrap(abaf[e]).frame < clock
          THEN <<Unwrap(abaf[e]).frame + 1>> ELSE <<>>)
         \o BlueprintRequestsFrom(e + 1)

\* request_rollback_for_blueprints
RequestRollbackForBlueprints ==
    /\ Running /\ pc = "consolidate" /\ rb = None
    /\ \E e \in Entities : abaf_added(e)
    /\ events' = events \o BlueprintRequestsFrom(FirstEntity)
    /\ abaf' = [e \in Entities |->
                IF abaf_added(e) THEN Some([Unwrap(abaf[e]) EXCEPT !.added = FALSE])
                ELSE abaf[e]]
    /\ UNCHANGED <<pc, halted, clock, fx, rb, prevRb, stats, config, budget, world, inputs,
                   despawning, corr, icaf, unpacked, asked, trig, log>>

\* faulty variant: the smallest frame whatever the strategy
consolidate_step_smallest(rb_frame, ev, strategy) ==
    IF rb_frame = 0 \/ ev < rb_frame THEN ev ELSE rb_frame

\* one iteration of the drain loop of consolidate_rollback_requests
consolidate_step(rb_frame, ev, strategy) ==
    IF strategy = "Newest"
    THEN IF rb_frame = 0 \/ ev > rb_frame THEN ev ELSE rb_frame
    ELSE IF rb_frame = 0 \/ ev < rb_frame THEN ev ELSE rb_frame

RECURSIVE consolidate_loop(_, _, _)
consolidate_loop(evs, strategy, rb_frame) ==
    IF evs = <<>> THEN rb_frame
    ELSE consolidate_loop(Tail(evs), strategy, consolidate_step(rb_frame, Head(evs), strategy))

\* the Rollback inserted by consolidate_rollback_requests for a non-empty queue
consolidate_rollback_requests(evs, strategy, now) ==
    Rollback_new(consolidate_loop(evs, strategy, 0), now)

\* the systems of Prefix::NotInRollback that raise requests have run
requests_raised ==
    \A e \in Entities : icaf[e] = None /\ (abaf[e] # None => ~Unwrap(abaf[e]).added)

Consolidate ==
    /\ Running /\ pc = "consolidate"
    /\ rb # None \/ requests_raised
    /\ pc' = "start_rollback"
    /\ IF rb # None \/ events = <<>>
       THEN UNCHANGED <<rb, events>>
       ELSE /\ rb' = Some(consolidate_rollback_requests(events, config.consolidation_strategy,
                                                        clock))
            /\ events' = <<>>
    /\ UNCHANGED <<halted, clock, fx, prevRb, stats, config, budget, world, inputs, trig, log>>
    /\ UNCHANGED <<despawning, corr, wrappers, asked>>


(* ------------------------- Prefix::StartRollback ----------------------- *)
\* run_if(resource_added::<Rollback>()): inserted this tick, not yet initiated
rollback_added == rb # None /\ Unwrap(rb).original_period = None

\* faulty variant: a rollback of exactly rollback_window frames passes
rollback_too_deep_strict(r) == r.end - r.start > RollbackWindow

\* the depth check of rollback_initiated
rollback_too_deep(r) == r.end - r.start >= RollbackWindow

\* faulty variant: the clock rewound to the first frame to resimulate
reset_game_clock_to_start(r) == r.start

\* faulty variant: the clock set to the end of the range
reset_game_clock_to_end(r) == r.end

\* range.start.saturating_sub(1)
reset_game_clock_to(r) == SatSub(r.start, 1)

\* faulty variant: the episode is not counted
stats_not_counted(st) == st

\* RollbackStats after rollback_initiated
stats_after_initiation(st) == [st EXCEPT !.num_rollbacks = @ + 1]

Provenance(h, rollback_frame, end_frame) ==
    IF CH_alive_at_frame(h, rollback_frame)
    THEN IF CH_alive_at_frame(h, end_frame) THEN "AliveThenAlive" ELSE "AliveThenDead"
    ELSE IF CH_alive_at_frame(h, end_frame) THEN "DeadThenAlive" ELSE "DeadThenDead"

\* faulty variant: an entity without a stored value is passed over
rollback_component_skips(e, rollback_frame, end_frame) == FALSE

rollback_component_panics(e, rollback_frame, end_frame) ==
    /\ tw[e]
    /\ Provenance(ch[e], rollback_frame, end_frame) \in {"AliveThenAlive", "AliveThenDead"}
    /\ CH_at_frame(ch[e], rollback_frame) = None

\* faulty variant: the live value is left as it is
rollback_component_keeps_live(e, rollback_frame, end_frame) == comp[e]

\* the live component of e after rollback_component and the flush of its commands
rollback_component(e, rollback_frame, end_frame) ==
    IF ~tw[e] THEN comp[e]
    ELSE LET p == Provenance(ch[e], rollback_frame, end_frame)
         IN  IF p = "DeadThenDead" THEN comp[e]
             ELSE IF p = "DeadThenAlive" THEN None
             ELSE CH_at_frame(ch[e], rollback_frame)

PrefixStartRollback ==
    /\ Running /\ pc = "start_rollback"
    /\ pc' = "game"
    /\ IF ~rollback_added
       THEN UNCHANGED <<halted, clock, fx, rb, stats, comp, addedT, removedT, log>>
       ELSE LET r  == Unwrap(rb)
                rf == reset_game_clock_to(r)
            IN  IF rollback_too_deep(r)
                THEN /\ halted' = "rollback further than rollback_window"
                     /\ UNCHANGED <<clock, fx, rb, stats, comp, addedT, removedT, log>>
                ELSE /\ rb' = Some([r EXCEPT !.original_period = Some(fx)])
                     /\ stats' = stats_after_initiation(stats)
                     /\ fx' = ZeroPeriod
                     /\ clock' = rf
                     /\ log' = <<>>
                     /\ IF \E e \in Entities : rollback_component_panics(e, rf, r.end)
                        THEN /\ halted' = "rollback_component: no history value"
                             /\ UNCHANGED <<comp, addedT, removedT>>
                        ELSE /\ halted' = halted
                             /\ comp' = [e \in Entities |-> rollback_component(e, rf, r.end)]
                             /\ addedT' = [e \in Entities |->
                                   addedT[e] \/ (comp[e] = None /\ comp'[e] # None)]
                             /\ removedT' = [e \in Entities |->
                                   removedT[e] \/ (comp[e] # None /\ comp'[e] = None)]
    /\ UNCHANGED <<prevRb, events, config, budget, tw, ch, ss, ssChanged, inputs, trig>>
    /\ UNCHANGED <<despawning, corr, wrappers, asked>>

(* ------------------------------ game logic ----------------------------- *)
\* the ghost record of executions: kept for an episode and the execution after it
log_after(l, frame, in_rb) ==
    IF in_rb \/ (l # <<>> /\ l[Len(l)][2]) THEN Append(l, <<frame, in_rb>>) ELSE <<>>

(* ----------------------- Prefix::UnwrapBlueprints ---------------------- *)
\* abaf.frame == 1 + game_clock
unwraps_now(e) == abaf[e] # None /\ Unwrap(abaf[e]).frame = clock + 1

\* unwrap_blueprints_at_target_frame: runs on every tick, rollback or not
UnwrapBlueprints ==
    /\ Running /\ pc = "game"
    /\ \E e \in Entities : unwraps_now(e)
    /\ comp' = [e \in Entities |->
                IF unwraps_now(e) THEN Some(Unwrap(abaf[e]).component) ELSE comp[e]]
    /\ addedT' = [e \in Entities |-> addedT[e] \/ (unwraps_now(e) /\ comp[e] = None)]
    /\ abaf' = [e \in Entities |-> IF unwraps_now(e) THEN None ELSE abaf[e]]
    /\ UNCHANGED <<pc, halted, control, config, budget, tw, ch, ss, ssChanged, removedT,
                   inputs, despawning, corr, icaf, unpacked, asked, trig, log>>

\* inc_frame then take_damage, between the prefix and postfix sets
GameLogic ==
    /\ Running /\ pc = "game"
    /\ clock < budget.frames
    /\ \A e \in Entities : ~unwraps_now(e)
    /\ pc' = "postfix_components"
    /\ clock' = clock + 1
    /\ comp' = [e \in Entities |->
                  IF IsSome(comp[e]) THEN Some(take_damage(Unwrap(comp[e]))) ELSE None]
    /\ log' = log_after(log, clock + 1, rb # None)
    /\ trig' = IF rb # None THEN trig ELSE [e \in Entities |-> None]
    /\ UNCHANGED <<halted, fx, rb, prevRb, events, stats, config, budget, tw, ch, ss, ssChanged,
                   addedT, removedT, inputs>>
    /\ UNCHANGED <<despawning, corr, wrappers, asked>>

(* ------------------------- Postfix::Components ------------------------- *)
record_component_history(h, e) ==
    IF tw[e] /\ IsSome(comp[e]) THEN CH_insert(h, clock, Unwrap(comp[e])) ELSE h

\* the query of record_component_birth: Added<T> with a ComponentHistory
birth_query(e) == tw[e] /\ addedT[e] /\ IsSome(comp[e])

\* alive_ranges.first() == Some(&(clock - 1, None))
born_last_frame(h) == Len(h.alive_ranges) > 0 /\ h.alive_ranges[1] = <<clock - 1, None>>

\* the loop reaches report_birth_at_frame for e: no `return` at e or before it
birth_reported(e) ==
    /\ rb = None
    /\ birth_query(e)
    /\ \A o \in Entities : (o <= e /\ birth_query(o)) => ~born_last_frame(ch[o])

record_component_birth(h, e) ==
    IF birth_reported(e) THEN CH_report_birth_at_frame(h, clock) ELSE h

\* the query of add_timewarp_components: Added<T>, Without<ComponentHistory<T>>
needs_timewarp_components(e) == addedT[e] /\ IsSome(comp[e]) /\ ~tw[e]

\* the query of remove_components_from_despawning_entities:
\* ComponentHistory<T>, Added<DespawnMarker>, With<T>
despawn_removal(e) == markerAdded[e] /\ tw[e] /\ IsSome(comp[e])

\* variant: the frame need not be the last of the rollback
needs_correction_any_frame(e) ==
    /\ tw[e] /\ IsSome(comp[e])
    /\ ch[e].correction_logging_enabled
    /\ rb # None
    /\ IsSome(CH_at_frame(ch[e], clock))
    /\ CH_at_frame(ch[e], clock) # comp[e]

\* record_component_history is about to overwrite a different value on the last frame
\* of a rollback, with correction logging enabled
needs_correction(e) ==
    /\ tw[e] /\ IsSome(comp[e])
    /\ ch[e].correction_logging_enabled
    /\ rb # None /\ Unwrap(rb).end = clock
    /\ IsSome(CH_at_frame(ch[e], clock))
    /\ CH_at_frame(ch[e], clock) # comp[e]

\* variant: before and after exchanged
correction_after_swapped(e) ==
    IF needs_correction(e)
    THEN Some([before |-> Unwrap(comp[e]),
               after |-> Unwrap(CH_at_frame(ch[e], clock)),
               frame |-> clock])
    ELSE corr[e]

\* the TimewarpCorrection of e after record_component_history
correction_after(e) ==
    IF needs_correction(e)
    THEN Some([before |-> Unwrap(CH_at_frame(ch[e], clock)),
               after |-> Unwrap(comp[e]),
               frame |-> clock])
    ELSE corr[e]

\* the two systems write ComponentHistory and are not ordered against each other
PostfixComponents ==
    /\ Running /\ pc = "postfix_components"
    /\ pc' = "postfix_in_rollback"
    /\ \E history_first \in BOOLEAN :
         LET before(e) == IF history_first THEN record_component_history(ch[e], e) ELSE ch[e]
             after(e)  == IF history_first
                          THEN record_component_birth(before(e), e)
                          ELSE record_component_history(record_component_birth(ch[e], e), e)
         IN  IF \E e \in Entities : birth_reported(e) /\ CH_birth_panics(before(e), clock)
             THEN /\ halted' = "No stored component value when reporting birth"
                  /\ UNCHANGED <<comp, tw, ch, ss, ssChanged, addedT, removedT, markerAdded,
                                 corr>>
             ELSE /\ halted' = halted
                  /\ ch' = [e \in Entities |->
                              IF needs_timewarp_components(e)
                              THEN [CH_with_capacity(RollbackWindow, clock, Unwrap(comp[e]))
                                      EXCEPT !.correction_logging_enabled =
                                                 budget.correction_logging]
                              ELSE after(e)]
                  /\ corr' = [e \in Entities |-> correction_after(e)]
                  /\ comp' = [e \in Entities |->
                                IF despawn_removal(e) THEN None ELSE comp[e]]
                  /\ removedT' = [e \in Entities |-> removedT[e] \/ despawn_removal(e)]
                  /\ markerAdded' = [e \in Entities |-> FALSE]
                  /\ tw' = [e \in Entities |-> tw[e] \/ needs_timewarp_components(e)]
                  /\ ss' = [e \in Entities |->
                              IF needs_timewarp_components(e)
                              THEN FB_with_capacity(RollbackWindow * SnapshotCapacityFactor)
                              ELSE ss[e]]
                  /\ ssChanged' = [e \in Entities |->
                                     ssChanged[e] \/ needs_timewarp_components(e)]
                  /\ addedT' = [e \in Entities |-> FALSE]
    /\ UNCHANGED <<control, config, budget, exists, marker, wrappers, asked, inputs, trig, log>>

(* ------------------------- Postfix::InRollback ------------------------- *)
\* variant: nothing is removed again during a rollback
needs_rekill_never(e) == FALSE

\* rekill_components_during_rollback: With<T>, not alive at the current frame
needs_rekill(e) == tw[e] /\ IsSome(comp[e]) /\ ~CH_alive_at_frame(ch[e], clock)

PostfixInRollback ==
    /\ Running /\ pc = "postfix_in_rollback"
    /\ pc' = "postfix_last"
    /\ IF rb = None
       THEN UNCHANGED <<comp, removedT>>
       ELSE /\ comp' = [e \in Entities |-> IF needs_rekill(e) THEN None ELSE comp[e]]
            /\ removedT' = [e \in Entities |-> removedT[e] \/ needs_rekill(e)]
    /\ UNCHANGED <<halted, control, config, budget, tw, ch, ss, ssChanged, addedT, inputs, trig, log>>
    /\ UNCHANGED <<despawning, corr, wrappers, asked>>

(* ---------------------------- Postfix::Last ---------------------------- *)
\* variant: one frame short of the rollback window
marker_elapsed_early(m, now) == Unwrap(m.frame) + RollbackWindow - 1 = now

\* marker.0 + rollback_window == game_clock.frame()
marker_elapsed(m, now) == Unwrap(m.frame) + RollbackWindow = now

\* despawn_entities_with_elapsed_despawn_marker reaches despawn_recursive for e
despawned_now(e) ==
    marker[e].present /\ IsSome(marker[e].frame) /\ marker_elapsed(marker[e], clock)

\* despawn_entities_with_elapsed_despawn_marker, then the flush of its commands
PostfixLast ==
    /\ Running /\ pc = "postfix_last"
    /\ pc' = "first"
    /\ marker' = [e \in Entities |->
                    IF marker[e].present /\ marker[e].frame = None
                    THEN [marker[e] EXCEPT !.frame = Some(clock)]
                    ELSE IF despawned_now(e) THEN NoMarker
                    ELSE marker[e]]
    /\ exists' = [e \in Entities |-> exists[e] /\ ~despawned_now(e)]
    /\ markerAdded' = [e \in Entities |-> markerAdded[e] /\ ~despawned_now(e)]
    /\ comp' = [e \in Entities |-> IF despawned_now(e) THEN None ELSE comp[e]]
    /\ tw' = [e \in Entities |-> tw[e] /\ ~despawned_now(e)]
    /\ ch' = [e \in Entities |-> IF despawned_now(e) THEN NoCH ELSE ch[e]]
    /\ ss' = [e \in Entities |-> IF despawned_now(e) THEN NoSS ELSE ss[e]]
    /\ ssChanged' = [e \in Entities |-> ssChanged[e] /\ ~despawned_now(e)]
    /\ addedT' = [e \in Entities |-> addedT[e] /\ ~despawned_now(e)]
    /\ removedT' = [e \in Entities |-> removedT[e] /\ ~despawned_now(e)]
    /\ corr' = [e \in Entities |-> IF despawned_now(e) THEN None ELSE corr[e]]
    /\ icaf' = [e \in Entities |-> IF despawned_now(e) THEN None ELSE icaf[e]]
    /\ abaf' = [e \in Entities |-> IF despawned_now(e) THEN None ELSE abaf[e]]
    /\ unpacked' = unpacked
    /\ asked' = asked
    /\ UNCHANGED <<halted, control, config, budget, inputs, trig, log>>

(* ---------------------------- specification ---------------------------- *)
Inputs ==
    \E e \in Entities :
        \/ \E f \in 1..(clock + budget.ahead) : \E v \in SnapshotValues(e, f) : SnapshotArrives(e, f, v)
        \/ HostRemove(e)
        \/ HostInsert(e)

Tick ==
    \/ PrefixFirst
    \/ PrefixInRollback
    \/ ApplySnapshots
    \/ Consolidate
    \/ PrefixStartRollback
    \/ GameLogic
    \/ PostfixComponents
    \/ PostfixInRollback
    \/ PostfixLast

Next == Inputs \/ Tick

Spec == Init /\ [][Next]_vars

\* consolidate_rollback_requests on every queue of up to MaxReqs requests for frames
\* up to the clock, in every order and with duplicates, under each strategy
RequestQueues(now) == UNION {[1..n -> 1..now] : n \in 1..MaxReqs}

InitCons ==
    /\ pc = "consolidate"
    /\ halted = ""
    /\ clock \in 1..MaxFrame
    /\ events \in RequestQueues(clock)
    /\ config \in {[DefaultConfig EXCEPT !.consolidation_strategy = st] : st \in Strategies}
    /\ fx = NormalPeriod
    /\ rb = None
    /\ prevRb = None
    /\ stats = [num_rollbacks |-> 0, range_faults |-> 0, non_rollback_updates |-> 0]
    /\ comp = [e \in Entities |-> Some(SpawnHealth)]
    /\ tw = [e \in Entities |-> FALSE]
    /\ ch = [e \in Entities |-> NoCH]
    /\ ss = [e \in Entities |-> NoSS]
    /\ ssChanged = [e \in Entities |-> FALSE]
    /\ addedT = [e \in Entities |-> TRUE]
    /\ removedT = [e \in Entities |-> FALSE]
    /\ inputs = [snapshots |-> 0, host_ops |-> 0, despawns |-> 0, icafs |-> 0,
                blueprints |-> 0]
    /\ budget \in Budgets
    /\ trig = [e \in Entities |-> None]
    /\ log = <<>>
    /\ exists = [e \in Entities |-> TRUE]
    /\ marker = [e \in Entities |-> NoMarker]
    /\ markerAdded = [e \in Entities |-> FALSE]
    /\ corr = [e \in Entities |-> None]
    /\ icaf = [e \in Entities |-> None]
    /\ abaf = [e \in Entities |-> None]
    /\ unpacked = [e \in Entities |-> None]
    /\ asked = NotAsked

NextCons == Consolidate

SpecCons == InitCons /\ [][NextCons]_vars

\* the same program, with snapshots for frames ahead of the clock among the inputs
InitAhead == Start(BudgetsAhead)

SpecAhead == InitAhead /\ [][Next]_vars

(* ------------------- ComponentHistory taken alone ---------------------- *)
\* the history of the first entity, built by with_capacity and then driven through its
\* public functions with any frames; inputs.host_ops counts the calls
InitCH ==
    /\ pc = "component_history"
    /\ halted = ""
    /\ clock = 0
    /\ config = DefaultConfig
    /\ fx = NormalPeriod
    /\ rb = None
    /\ prevRb = None
    /\ events = <<>>
    /\ stats = [num_rollbacks |-> 0, range_faults |-> 0, non_rollback_updates |-> 0]
    /\ comp = [e \in Entities |-> Some(SpawnHealth)]
    /\ tw = [e \in Entities |-> e = FirstEntity]
    /\ \E birth_frame \in 1..MaxFrame :
          ch = [e \in Entities |->
                  IF e = FirstEntity
                  THEN CH_with_capacity(RollbackWindow, birth_frame, SpawnHealth)
                  ELSE NoCH]
    /\ ss = [e \in Entities |-> NoSS]
    /\ ssChanged = [e \in Entities |-> FALSE]
    /\ addedT = [e \in Entities |-> FALSE]
    /\ removedT = [e \in Entities |-> FALSE]
    /\ inputs = [snapshots |-> 0, host_ops |-> 0, despawns |-> 0, icafs |-> 0,
                blueprints |-> 0]
    /\ budget = PlainRun(0, MaxCalls)
    /\ trig = [e \in Entities |-> None]
    /\ log = <<>>
    /\ exists = [e \in Entities |-> TRUE]
    /\ marker = [e \in Entities |-> NoMarker]
    /\ markerAdded = [e \in Entities |-> FALSE]
    /\ corr = [e \in Entities |-> None]
    /\ icaf = [e \in Entities |-> None]
    /\ abaf = [e \in Entities |-> None]
    /\ unpacked = [e \in Entities |-> None]
    /\ asked = NotAsked

\* a call on the history is possible
CallCH ==
    /\ Running /\ pc = "component_history"
    /\ inputs.host_ops < budget.host_ops
    /\ inputs' = [inputs EXCEPT !.host_ops = @ + 1]
    /\ UNCHANGED <<pc, control, config, budget, comp, tw, ss, ssChanged, addedT, removedT, log>>
    /\ UNCHANGED <<despawning, corr, wrappers, asked>>

\* the ghost record of the call: its name, its frame, and whether the history was
\* alive at that frame when the call was made
CalledFor(call, F) ==
    trig' = [trig EXCEPT ![FirstEntity] =
                Some([call |-> call, frame |-> F,
                      was_alive |-> CH_alive_at_frame(ch[FirstEntity], F)])]

ReportBirth(F) ==
    /\ CallCH /\ CalledFor("report_birth_at_frame", F)
    /\ IF CH_birth_panics(ch[FirstEntity], F)
       THEN halted' = "No stored component value when reporting birth" /\ ch' = ch
       ELSE /\ halted' = halted
            /\ ch' = [ch EXCEPT ![FirstEntity] = CH_report_birth_at_frame(@, F)]

ReportDeath(F) ==
    /\ CallCH /\ CalledFor("report_death_at_frame", F)
    /\ halted' = halted
    /\ ch' = [ch EXCEPT ![FirstEntity] = CH_report_death_at_frame(@, F)]

InsertValue(F) ==
    /\ CallCH /\ CalledFor("insert", F)
    /\ halted' = halted
    /\ ch' = [ch EXCEPT ![FirstEntity] = CH_insert(@, F, ServerHealth)]

NextCH == \E F \in 1..MaxFrame : ReportBirth(F) \/ ReportDeath(F) \/ InsertValue(F)

SpecCH == InitCH /\ [][NextCH]_vars

(* ---------------------- FrameBuffer taken alone ------------------------- *)
\* the buffer of the first entity, built by with_capacity and then driven through
\* insert and remove_entries_newer_than with any frames; log lists the calls made
InitFB ==
    /\ pc = "frame_buffer"
    /\ halted = ""
    /\ clock = 0
    /\ config = DefaultConfig
    /\ fx = NormalPeriod
    /\ rb = None
    /\ prevRb = None
    /\ events = <<>>
    /\ stats = [num_rollbacks |-> 0, range_faults |-> 0, non_rollback_updates |-> 0]
    /\ comp = [e \in Entities |-> None]
    /\ tw = [e \in Entities |-> FALSE]
    /\ ch = [e \in Entities |-> NoCH]
    /\ ss = [e \in Entities |->
               IF e = FirstEntity THEN FB_with_capacity(RollbackWindow) ELSE NoSS]
    /\ ssChanged = [e \in Entities |-> FALSE]
    /\ addedT = [e \in Entities |-> FALSE]
    /\ removedT = [e \in Entities |-> FALSE]
    /\ inputs = [snapshots |-> 0, host_ops |-> 0, despawns |-> 0, icafs |-> 0,
                blueprints |-> 0]
    /\ budget = PlainRun(0, MaxCalls)
    /\ trig = [e \in Entities |-> None]
    /\ log = <<>>
    /\ exists = [e \in Entities |-> TRUE]
    /\ marker = [e \in Entities |-> NoMarker]
    /\ markerAdded = [e \in Entities |-> FALSE]
    /\ corr = [e \in Entities |-> None]
    /\ icaf = [e \in Entities |-> None]
    /\ abaf = [e \in Entities |-> None]
    /\ unpacked = [e \in Entities |-> None]
    /\ asked = NotAsked

\* a call on the buffer is possible; the ghost record keeps the buffer as it was
CallFB(call, F) ==
    /\ Running /\ pc = "frame_buffer"
    /\ inputs.host_ops < budget.host_ops
    /\ inputs' = [inputs EXCEPT !.host_ops = @ + 1]
    /\ trig' = [trig EXCEPT ![FirstEntity] = Some(ss[FirstEntity])]
    /\ log' = Append(log, [call |-> call, frame |-> F])
    /\ UNCHANGED <<pc, control, config, budget, comp, tw, ch, ssChanged, addedT, removedT>>
    /\ UNCHANGED <<despawning, corr, wrappers, asked>>

InsertFrame(F, v) ==
    /\ CallFB("insert", F)
    /\ halted' = halted
    /\ ss' = [ss EXCEPT ![FirstEntity] = FB_insert(@, F, v)]

RemoveEntriesNewerThan(F) ==
    /\ CallFB("remove_entries_newer_than", F)
    /\ IF FB_remove_panics(ss[FirstEntity], F)
       THEN halted' = "drain: range end out of bounds" /\ ss' = ss
       ELSE /\ halted' = halted
            /\ ss' = [ss EXCEPT ![FirstEntity] = FB_remove_entries_newer_than(@, F)]

\* the frames the calls on the buffer name: enough of them for a frame to fall
\* below oldest_frame()
BufferFrames == 1..(MaxFrame + 2)

NextFB ==
    \/ \E F \in BufferFrames, v \in {SpawnHealth, ServerHealth} : InsertFrame(F, v)
    \/ \E F \in {0} \cup BufferFrames : RemoveEntriesNewerThan(F)

SpecFB == InitFB /\ [][NextFB]_vars

\* the schedule keeps running its sets: with the timestep at zero every tick of an
\* episode is due at once
FairSpec == Spec /\ WF_vars(Tick)

\* the same program with DespawnMarkers among the inputs
BudgetsDespawn ==
    { [PlainRun(1, 0) EXCEPT !.despawns = 1],
      [PlainRun(0, MaxHostOps) EXCEPT !.despawns = 1] }

InitDespawn == Start(BudgetsDespawn)

Despawns == \E e \in Entities, m \in MarkerFrames : HostDespawn(e, m)

NextDespawn == Next \/ Despawns

SpecDespawn == InitDespawn /\ [][NextDespawn]_vars

FairSpecDespawn == SpecDespawn /\ WF_vars(Tick)

\* runs in which the first entity is spawned without T and is given T later by the host
BudgetsSpawn ==
    { [PlainRun(1, 2) EXCEPT !.bare = {FirstEntity}],
      [PlainRun(2, 1) EXCEPT !.bare = {FirstEntity}] }

InitSpawn == Start(BudgetsSpawn)

SpecSpawn == InitSpawn /\ [][Next]_vars

\* runs in which the host uses InsertComponentAtFrame, on an entity spawned with or without T
BudgetsIcaf ==
    { [PlainRun(0, 0) EXCEPT !.icafs = 2, !.bare = {FirstEntity}],
      [PlainRun(0, 2) EXCEPT !.icafs = 1, !.bare = {FirstEntity}],
      [PlainRun(0, 2) EXCEPT !.icafs = 1],
      [PlainRun(1, 0) EXCEPT !.icafs = 1] }

InitIcaf == Start(BudgetsIcaf)

InsertsAtFrame == \E e \in Entities, f \in IcafFrames : HostInsertAtFrame(e, f, ServerHealth)

NextIcaf == Next \/ InsertsAtFrame \/ UnpackIcafsAdding \/ UnpackIcafsInto

SpecIcaf == InitIcaf /\ [][NextIcaf]_vars

\* runs in which the host wraps a blueprint in AssembleBlueprintAtFrame
BudgetsBlueprint ==
    { [PlainRun(0, 0) EXCEPT !.blueprints = 1, !.bare = {FirstEntity}],
      [PlainRun(1, 0) EXCEPT !.blueprints = 1],
      [PlainRun(0, 1) EXCEPT !.blueprints = 1, !.bare = {FirstEntity}] }

InitBlueprint == Start(BudgetsBlueprint)

WrapsBlueprint ==
    \E e \in Entities, f \in BlueprintFrames : HostWrapBlueprint(e, f, ServerHealth)

NextBlueprint == Next \/ WrapsBlueprint \/ RequestRollbackForBlueprints \/ UnwrapBlueprints

SpecBlueprint == InitBlueprint /\ [][NextBlueprint]_vars

FairSpecBlueprint ==
    SpecBlueprint /\ WF_vars(Tick \/ RequestRollbackForBlueprints \/ UnwrapBlueprints)

\* the same program run for more frames than the history retains, with one snapshot
BudgetsLate ==
    { [PlainRun(1, 0) EXCEPT !.frames = MaxFrame + 2],
      [PlainRun(1, MaxHostOps) EXCEPT !.frames = MaxFrame + 2] }

InitLate == Start(BudgetsLate)

SpecLate == InitLate /\ [][Next]_vars

\* the same program with T registered with or without correction logging
BudgetsLogging == Budgets \cup { [b EXCEPT !.correction_logging = TRUE] : b \in Budgets }

InitLogging == Start(BudgetsLogging)

SpecLogging == InitLogging /\ [][Next]_vars


(* ======================================================================= *)
(* Properties                                                              *)
(* ======================================================================= *)
\* the completion of an episode has just been flushed: back in NotInRollback
EpisodeJustCompleted == Running /\ pc = "apply_snapshots" /\ rb = None /\ prevRb # None

\* the component of e was never removed
AlwaysAlive(e) == tw[e] /\ Len(ch[e].alive_ranges) = 1 /\ ch[e].alive_ranges[1][2] = None

\* history of e from frame F to the clock is V followed by the game logic's results
Resimulated(e, F, V) ==
    /\ CH_at_frame(ch[e], F) = Some(V)
    /\ \A G \in (F + 1)..clock :
          /\ IsSome(CH_at_frame(ch[e], G - 1))
          /\ CH_at_frame(ch[e], G) = Some(take_damage(Unwrap(CH_at_frame(ch[e], G - 1))))
    /\ comp[e] = CH_at_frame(ch[e], clock)

\* a snapshot of e for a frame inside the window, differing from the recorded value,
\* raised a request and the episode it triggered has completed
MispredictionResimulated(e) ==
    /\ EpisodeJustCompleted
    /\ IsSome(trig[e])
    /\ Unwrap(trig[e]).requested
    /\ IsSome(Unwrap(trig[e]).stored)
    /\ Unwrap(trig[e]).stored # Some(Unwrap(trig[e]).value)
    /\ Unwrap(trig[e]).frame > Unwrap(prevRb).end - RollbackWindow
    /\ AlwaysAlive(e)

\* C1: after the rollback triggered by a differing snapshot V for past frame F completes,
\* history.at_frame(F) = V, every later frame up to the clock holds the game logic applied
\* to the frame before it, and the live value equals history at the clock.
\* Stated for the strategy documented for per-entity updates (Oldest), without forced
\* rollbacks.
C1_SnapshotResimulated ==
    \A e \in Entities :
        (/\ MispredictionResimulated(e)
         /\ config.consolidation_strategy = "Oldest"
         /\ ~config.force_rollback_always)
            => Resimulated(e, Unwrap(trig[e]).frame, Unwrap(trig[e]).value)

\* the same, for a tick in which only one entity raised a request
C1_SingleRequest ==
    \A e \in Entities :
        (/\ MispredictionResimulated(e)
         /\ \A o \in Entities \ {e} : trig[o] = None \/ ~Unwrap(trig[o]).requested)
            => Resimulated(e, Unwrap(trig[e]).frame, Unwrap(trig[e]).value)


(* ------------------------------- C2 ------------------------------------ *)
\* every snapshot examined in this tick is for a past frame and equals the value
\* recorded for that frame, and rollbacks are not forced
ConfirmedOnly ==
    /\ ~config.force_rollback_always
    /\ \E e \in Entities : IsSome(trig[e])
    /\ \A e \in Entities :
          IsSome(trig[e]) => /\ Unwrap(trig[e]).frame < clock
                             /\ Unwrap(trig[e]).stored = Some(Unwrap(trig[e]).value)

\* C2: a snapshot for a past frame that equals the recorded value (force_rollback_always
\* off) raises no RollbackRequest, creates no Rollback, leaves num_rollbacks alone, and
\* the prefix of the tick changes neither history, nor the live values, nor the clock.
C2_ConfirmedSnapshotNoRollback ==
    [][(pc \in {"apply_snapshots", "consolidate", "start_rollback"} /\ ConfirmedOnly')
          => /\ events' = <<>>
             /\ rb' = None
             /\ stats' = stats
             /\ ch' = ch /\ comp' = comp /\ clock' = clock /\ fx' = fx
             /\ halted' = ""]_vars

\* a confirming snapshot has been examined
C2_Witness ==
    /\ Running /\ pc = "consolidate" /\ ConfirmedOnly
    /\ \E e \in Entities : IsSome(comp[e]) /\ Unwrap(trig[e]).value # Unwrap(comp[e])

(* ------------------------------- C3 ------------------------------------ *)
\* rollback_initiated ran to its end in this step
Initiated == rollback_added /\ rb' # None /\ Unwrap(rb').original_period # None

\* C3: num_rollbacks grows by exactly one in the step that initiates an episode and is
\* unchanged by every other step, resimulation ticks included.
C3_OneCountPerEpisode ==
    [][stats'.num_rollbacks = stats.num_rollbacks + (IF Initiated THEN 1 ELSE 0)]_vars

\* one episode initiated from two requests, now resimulating
C3_Witness ==
    /\ Running /\ pc = "postfix_components" /\ rb # None
    /\ stats.num_rollbacks = 1
    /\ \A e \in Entities : IsSome(trig[e]) /\ Unwrap(trig[e]).requested


(* ------------------------------- C4 ------------------------------------ *)
\* an initiated episode is in progress
InEpisode == rb # None /\ Unwrap(rb).original_period # None

\* the first n executions logged are frames S, S+1, ... with the Rollback present
EpisodeFrames(S, n) ==
    /\ Len(log) >= n
    /\ \A i \in 1..n : log[i] = <<S + i - 1, TRUE>>

\* C4: an episode (S, E) executes the game logic with the Rollback present exactly once
\* for each of S..E in ascending order, the clock never passes E inside it, and the
\* execution that follows is frame E+1 without a Rollback.
C4_EachFrameOnce ==
    /\ (Running /\ InEpisode) =>
          LET r == Unwrap(rb)
          IN  /\ clock <= r.end
              /\ clock + 1 >= r.start
              /\ Len(log) = clock + 1 - r.start
              /\ EpisodeFrames(r.start, Len(log))
    /\ (Running /\ rb = None /\ log # <<>>) =>
          LET r == Unwrap(prevRb)
              n == r.end + 1 - r.start
          IN  /\ prevRb # None
              /\ EpisodeFrames(r.start, n)
              /\ \/ Len(log) = n
                 \/ Len(log) = n + 1 /\ log[n + 1] = <<r.end + 1, FALSE>>

\* an episode of at least two frames finished and the next frame was executed
C4_Witness ==
    /\ Running /\ rb = None /\ Len(log) >= 3
    /\ ~log[Len(log)][2]

(* ------------------------------- C6 ------------------------------------ *)
\* C6: a consolidated rollback with end - start >= rollback_window is rejected: the run
\* stops, the clock is not rewound, no component is restored or removed, the timestep
\* stays and num_rollbacks is not incremented.
C6_TooDeepNeverResimulates ==
    [][(pc = "start_rollback" /\ rollback_added
            /\ Unwrap(rb).end - Unwrap(rb).start >= RollbackWindow)
          => /\ halted' # ""
             /\ clock' = clock /\ comp' = comp /\ ch' = ch /\ fx' = fx
             /\ stats' = stats /\ log' = log]_vars

\* the depth check rejected a rollback of exactly rollback_window frames
C6_Witness ==
    /\ halted = "rollback further than rollback_window"
    /\ Unwrap(rb).end - Unwrap(rb).start = RollbackWindow

(* ------------------------------- C9 ------------------------------------ *)
\* C9: outside an episode the fixed timestep is never the fast-forward value, and the
\* step that completes an episode sets it to the value saved at initiation, which is the
\* value it had in the step before initiation.
C9_TimestepRestored ==
    [][/\ Initiated => Unwrap(rb').original_period = Some(fx)
       /\ (rb # None /\ rb' = None) => Some(fx') = Unwrap(rb).original_period
       /\ rb' = None => fx' # ZeroPeriod
       /\ (rb = None /\ rb' = None) => fx' = fx]_vars

\* two episodes completed with the second timestep configured
C9_Witness ==
    /\ Running /\ rb = None /\ stats.num_rollbacks = 2 /\ fx = SlowPeriod

(* ------------------------------- C10 ----------------------------------- *)
\* the restore procedure has just run for target frame F = clock
JustRestored == Running /\ InEpisode /\ pc = "game" /\ clock + 1 = Unwrap(rb).start

\* C10: right after the restore procedure for frame F, a tracked live value is present
\* iff history is alive at F, and equals history.at_frame(F) when present.
C10_RestoreMatchesHistory ==
    JustRestored =>
        \A e \in Entities :
            tw[e] => /\ IsSome(comp[e]) <=> CH_alive_at_frame(ch[e], clock)
                     /\ IsSome(comp[e]) => comp[e] = CH_at_frame(ch[e], clock)


(* ------------------------------- C7 ------------------------------------ *)
RequestedFrames(evs) == {evs[i] : i \in 1..Len(evs)}

AliveWithoutValue(e, F) ==
    tw[e] /\ CH_alive_at_frame(ch[e], F) /\ CH_at_frame(ch[e], F) = None

\* the restore at initiation is about to run for a rollback that passes the depth check
RestoreAtInitiation ==
    /\ Running /\ pc = "start_rollback" /\ rollback_added
    /\ Unwrap(rb).end - Unwrap(rb).start < RollbackWindow

HistoryMatchesLive ==
    \A e \in Entities :
        (tw[e] /\ IsSome(comp[e])) => CH_at_frame(ch[e], clock) = comp[e]

\* C12: the last step of every tick, inside a rollback or not, leaves history at the
\* clock equal to the live value for every entity that has the value and a history.
C12_HistoryMatchesLiveAtTickEnd ==
    [][(Running /\ pc = "postfix_in_rollback") => HistoryMatchesLive']_vars

(* ------------------------------- C13 ----------------------------------- *)
\* e never received authoritative data and its value is alive since frame 1
Untouched(e) ==
    /\ AlwaysAlive(e) /\ ch[e].alive_ranges[1][1] = 1
    /\ FB_newest_frame(ss[e]) = 0

\* what the deterministic game logic gives at frame G to a value alive since frame 1
Predicted(G) == SpawnHealth - G

\* the rollback in progress, or the last one completed
CurrentOrLastRollback == IF rb # None THEN rb ELSE prevRb

\* C13: an entity that received no authoritative data and was alive throughout has, for
\* every frame G of the range of a rollback in progress or completed, the same history
\* value as before the rollback: the one the game logic produced for G the first time.
C13_UntouchedEntityUnchanged ==
    (Running /\ (InEpisode \/ (rb = None /\ prevRb # None))) =>
        \A e \in Entities : Untouched(e) =>
            \A G \in Unwrap(CurrentOrLastRollback).start..Unwrap(CurrentOrLastRollback).end :
                CH_at_frame(ch[e], G) \in {None, Some(Predicted(G))}

\* a rollback of two frames triggered by the other entity's snapshot has completed
C13_Witness ==
    /\ EpisodeJustCompleted
    /\ Unwrap(prevRb).end > Unwrap(prevRb).start
    /\ \E e \in Entities :
          /\ Untouched(e)
          /\ \A G \in Unwrap(prevRb).start..Unwrap(prevRb).end :
                CH_at_frame(ch[e], G) = Some(Predicted(G))

(* ------------------------------- C14 ----------------------------------- *)
\* alive_ranges is sorted by start, its ranges do not overlap, a closed range has
\* start <= end, and only the last range may be open
WellFormedRanges(r) ==
    /\ \A i \in 1..Len(r) : r[i][2] # None => r[i][1] <= Unwrap(r[i][2])
    /\ \A i \in 1..(Len(r) - 1) :
          /\ r[i][2] # None
          /\ Unwrap(r[i][2]) <= r[i + 1][1]

\* C14: the alive_ranges of every ComponentHistory are well formed in every state.
C14_AliveRangesWellFormed ==
    \A e \in Entities : tw[e] => WellFormedRanges(ch[e].alive_ranges)

(* ------------------------------- C15 ----------------------------------- *)
\* the frames at which aliveness is compared: every frame a call can name, and one beyond
Frames == 0..(MaxFrame + 3)

\* C15: report_death_at_frame(F) on a history alive at F leaves the history not alive
\* at every frame G >= F and as alive as before at every frame G < F.
C15_DeathClosesAtFrame ==
    [][\A F \in 1..MaxFrame :
          (ReportDeath(F) /\ CH_alive_at_frame(ch[FirstEntity], F)) =>
              \A G \in Frames :
                  IF G >= F
                  THEN ~CH_alive_at_frame(ch'[FirstEntity], G)
                  ELSE CH_alive_at_frame(ch'[FirstEntity], G)
                         = CH_alive_at_frame(ch[FirstEntity], G)]_vars

(* ------------------------------- C16 ----------------------------------- *)
\* C16: report_death_at_frame(F) on a history not alive at F changes neither the
\* alive_ranges nor the stored values, and raises no failure.
C16_StaleDeathIsNoOp ==
    [][\A F \in 1..MaxFrame :
          (ReportDeath(F) /\ ~CH_alive_at_frame(ch[FirstEntity], F)) =>
              /\ ch'[FirstEntity] = ch[FirstEntity]
              /\ halted' = ""]_vars

\* a death was reported for a frame at or after the end of a closed lifetime
C16_Witness ==
    /\ halted = ""
    /\ trig[FirstEntity] # None
    /\ Unwrap(trig[FirstEntity]).call = "report_death_at_frame"
    /\ ~Unwrap(trig[FirstEntity]).was_alive
    /\ \E i \in 1..Len(ch[FirstEntity].alive_ranges) :
          /\ ch[FirstEntity].alive_ranges[i][2] # None
          /\ Unwrap(ch[FirstEntity].alive_ranges[i][2]) <= Unwrap(trig[FirstEntity]).frame

(* ------------------------------- C17 ----------------------------------- *)
\* frame F lies between oldest_frame() and newest_frame() of the buffer
InRange(fb, F) == FB_oldest_frame(fb) <= F /\ F <= FB_newest_frame(fb)

\* C17: insert(F, v) with oldest_frame() <= F <= newest_frame() is followed by
\* get(F) = Some(v).
C17_InsertThenGet ==
    [][\A F \in BufferFrames, v \in {SpawnHealth, ServerHealth} :
          (InsertFrame(F, v) /\ InRange(ss[FirstEntity], F)) =>
              FB_get(ss'[FirstEntity], F) = Some(v)]_vars

(* ------------------------------- C18 ----------------------------------- *)
\* C18: insert(F, v) with oldest_frame() <= F <= newest_frame() leaves newest_frame(),
\* oldest_frame() and get(G) for every G other than F as they were.
C18_InsertInPlace ==
    [][\A F \in BufferFrames, v \in {SpawnHealth, ServerHealth} :
          (InsertFrame(F, v) /\ InRange(ss[FirstEntity], F)) =>
              /\ FB_newest_frame(ss'[FirstEntity]) = FB_newest_frame(ss[FirstEntity])
              /\ FB_oldest_frame(ss'[FirstEntity]) = FB_oldest_frame(ss[FirstEntity])
              /\ \A G \in Frames \ {F} :
                    FB_get(ss'[FirstEntity], G) = FB_get(ss[FirstEntity], G)]_vars

(* ------------------------------- C19 ----------------------------------- *)
\* the buffer as it was before the last call
Before == Unwrap(trig[FirstEntity])

LastCall == log[Len(log)]

\* C19: insert(N + k, v) with N = newest_frame() and k > 1 makes newest_frame() = N + k
\* and get(N + k) = Some(v), leaves get(G) = None for every G strictly between N and
\* N + k, and keeps get(G) for every G <= N that is still among the capacity newest frames.
C19_InsertWithGap ==
    [][\A F \in BufferFrames, v \in {SpawnHealth, ServerHealth} :
          (InsertFrame(F, v) /\ F > FB_newest_frame(ss[FirstEntity]) + 1) =>
              /\ FB_newest_frame(ss'[FirstEntity]) = F
              /\ FB_get(ss'[FirstEntity], F) = Some(v)
              /\ \A G \in Frames :
                    /\ (FB_newest_frame(ss[FirstEntity]) < G /\ G < F)
                          => FB_get(ss'[FirstEntity], G) = None
                    /\ (G <= FB_newest_frame(ss[FirstEntity])
                          /\ G > F - ss[FirstEntity].capacity)
                          => FB_get(ss'[FirstEntity], G) = FB_get(ss[FirstEntity], G)]_vars

\* an insert two or more frames above a newest frame that held a value, which is kept
C19_Witness ==
    /\ pc = "frame_buffer" /\ log # <<>>
    /\ LastCall.call = "insert"
    /\ FB_newest_frame(Before) >= 1
    /\ LastCall.frame > FB_newest_frame(Before) + 1
    /\ FB_newest_frame(ss[FirstEntity]) = LastCall.frame
    /\ IsSome(FB_get(Before, FB_newest_frame(Before)))
    /\ FB_get(ss[FirstEntity], FB_newest_frame(Before))
          = FB_get(Before, FB_newest_frame(Before))
    /\ FB_get(ss[FirstEntity], LastCall.frame - 1) = None

(* ------------------------------- C20 ----------------------------------- *)
\* the calls made so far are capacity + 1 inserts at strictly ascending frames
AscendingInserts(calls, capacity) ==
    /\ Len(calls) = capacity + 1
    /\ \A i \in 1..Len(calls) : calls[i].call = "insert"
    /\ \A i \in 1..(Len(calls) - 1) : calls[i].frame < calls[i + 1].frame

\* C20: after insert at a frame N above the previous newest frame, get(G) = None for
\* every G <= N - capacity; and after capacity + 1 inserts at strictly ascending frames
\* get of the first of these frames is None.
C20_OldFramesEvicted ==
    [][\A F \in BufferFrames, v \in {SpawnHealth, ServerHealth} :
          (InsertFrame(F, v) /\ F > FB_newest_frame(ss[FirstEntity])) =>
              /\ \A G \in Frames :
                    G <= F - ss[FirstEntity].capacity => FB_get(ss'[FirstEntity], G) = None
              /\ AscendingInserts(log', ss[FirstEntity].capacity)
                    => FB_get(ss'[FirstEntity], log'[1].frame) = None]_vars

\* capacity + 1 ascending inserts, the last of which evicted the value of the first
C20_Witness ==
    /\ pc = "frame_buffer"
    /\ AscendingInserts(log, ss[FirstEntity].capacity)
    /\ IsSome(FB_get(Before, log[1].frame))
    /\ FB_get(ss[FirstEntity], log[1].frame) = None

(* ------------------------------- C21 ----------------------------------- *)
\* C21: insert(F, v) with F < oldest_frame() leaves the buffer as it was (same
\* newest_frame(), same get(G) for every G) and does not stop the process.
C21_TooOldInsertDropped ==
    [][\A F \in BufferFrames, v \in {SpawnHealth, ServerHealth} :
          (InsertFrame(F, v) /\ F < FB_oldest_frame(ss[FirstEntity])) =>
              /\ FB_newest_frame(ss'[FirstEntity]) = FB_newest_frame(ss[FirstEntity])
              /\ \A G \in Frames :
                    FB_get(ss'[FirstEntity], G) = FB_get(ss[FirstEntity], G)
              /\ ss'[FirstEntity] = ss[FirstEntity]
              /\ halted' = ""]_vars

\* an insert was made below oldest_frame() of a buffer holding a value
C21_Witness ==
    /\ pc = "frame_buffer" /\ log # <<>> /\ halted = ""
    /\ LastCall.call = "insert"
    /\ LastCall.frame < FB_oldest_frame(Before)
    /\ IsSome(FB_get(Before, FB_newest_frame(Before)))
    /\ ss[FirstEntity] = Before

(* ------------------------------- C22 ----------------------------------- *)
\* the snapshot processing is about to meet a snapshot whose frame the history rejects
SnapshotTooOld(e) ==
    /\ Running /\ pc = "apply_snapshots" /\ rb = None
    /\ SnapKind(e) = "panic_too_old"

\* C22: a snapshot value whose frame is below the window the ComponentHistory retains is
\* dropped: the history is unchanged, range_faults grows by one, no rollback is requested
\* for it, and the run goes on.
C22_TooOldSnapshotRecovered ==
    [][\A e \in Entities :
          (SnapshotTooOld(e) /\ \A o \in Entities \ {e} : SnapKind(o) = "not_changed") =>
              /\ halted' = ""
              /\ ch'[e] = ch[e]
              /\ stats'.range_faults = stats.range_faults + 1
              /\ events' = events]_vars

(* ------------------------------- C23 ----------------------------------- *)
\* the snapshot processing is about to meet a changed snapshot of e whose newest frame
\* is the current clock, and no changed snapshot of another entity
JustInTime(e) ==
    /\ Running /\ pc = "apply_snapshots" /\ rb = None
    /\ tw[e] /\ ssChanged[e]
    /\ snap_frame(e) = clock /\ clock > 0
    /\ IsSome(comp_from_snapshot(e))
    /\ \A o \in Entities \ {e} : ~(tw[o] /\ ssChanged[o])

\* the snapshot examined in this tick's prefix was one for the current clock
AppliedJustInTime(e) ==
    /\ Running /\ rb = None
    /\ pc \in {"consolidate", "start_rollback", "game"}
    /\ trig[e] # None /\ Unwrap(trig[e]).frame = clock
    /\ \A o \in Entities \ {e} : trig[o] = None

\* C23: a snapshot whose frame is the current clock when it is processed becomes the
\* live value before the game logic of that tick, raises no rollback request, leaves
\* num_rollbacks alone and adds one to non_rollback_updates.
C23_JustInTimeApplied ==
    [][\A e \in Entities :
          /\ JustInTime(e) =>
                /\ halted' = ""
                /\ comp'[e] = comp_from_snapshot(e)
                /\ events' = <<>>
                /\ stats'.num_rollbacks = stats.num_rollbacks
                /\ stats'.non_rollback_updates = stats.non_rollback_updates + 1
          /\ AppliedJustInTime(e) =>
                /\ rb' = None
                /\ stats'.num_rollbacks = stats.num_rollbacks
                /\ pc = "game" => comp[e] = Some(Unwrap(trig[e]).value)]_vars

\* the game logic is about to run on a value a just-in-time snapshot replaced
C23_Witness ==
    \E e \in Entities :
        /\ AppliedJustInTime(e) /\ pc = "game"
        /\ Unwrap(trig[e]).stored # Some(Unwrap(trig[e]).value)
        /\ comp[e] = Some(ServerHealth)
        /\ stats.non_rollback_updates = 1 /\ stats.num_rollbacks = 0

(* ------------------------------- C24 ----------------------------------- *)
\* the recording step runs on the last frame of a rollback
RecordingFinalFrame ==
    Running /\ pc = "postfix_components" /\ rb # None /\ Unwrap(rb).end = clock

\* the value recorded earlier for the current frame differs from the live value of e
Mispredicted(e) ==
    /\ tw[e] /\ IsSome(comp[e])
    /\ IsSome(CH_at_frame(ch[e], clock))
    /\ CH_at_frame(ch[e], clock) # comp[e]

C25_CorrectionOtherwiseUntouched ==
    [][\A e \in Entities :
          (corr'[e] # corr[e]) =>
              /\ RecordingFinalFrame
              /\ budget.correction_logging
              /\ Mispredicted(e)]_vars

\* an entity holds a correction from an earlier rollback while a snapshot that confirms
\* the prediction is processed
C25_Witness ==
    \E e \in Entities :
        /\ Running /\ pc = "game" /\ rb = None
        /\ corr[e] # None
        /\ trig[e] # None
        /\ Unwrap(trig[e]).frame < clock
        /\ Unwrap(trig[e]).stored = Some(Unwrap(trig[e]).value)

(* ------------------------------- C26 ----------------------------------- *)
\* the tick that processes a newly added DespawnMarker of e is at its recording step
ProcessingMarker(e) ==
    Running /\ pc = "postfix_components" /\ exists[e] /\ markerAdded[e]

\* C26: the tick that processes a DespawnMarker removes the tracked value of the entity
\* from the live world and leaves the entity, its ComponentHistory and its
\* ServerSnapshot in existence.
C26_MarkerRemovesValueKeepsEntity ==
    [][\A e \in Entities :
          (ProcessingMarker(e) /\ halted' = "") =>
              /\ comp'[e] = None
              /\ exists'[e]
              /\ tw[e] => (tw'[e] /\ ch'[e].values = record_component_history(ch[e], e).values
                                 /\ ss'[e] = ss[e])]_vars

(* -------------------------------- C27 -------------------------------- *)
\* the marker of e has been processed and names frame M
MarkerProcessed(e) ==
    exists[e] /\ marker[e].present /\ ~markerAdded[e] /\ IsSome(marker[e].frame)

\* the history of e has no live frame from M on
DeadFrom(h, M) == \A G \in M..(MaxFrame + 2) : ~CH_alive_at_frame(h, G)

\* Prefix::First is about to record the removal made when the marker of e was processed
RecordingMarkerDeath(e) ==
    /\ Running /\ pc = "first" /\ rb = None
    /\ MarkerProcessed(e) /\ removedT[e] /\ tw[e]
    /\ inputs.host_ops = 0

\* C27: processing a DespawnMarker removes every tracked value present on the entity
\* and the removal is recorded as a death at the marker's frame (the current frame
\* when the marker had none), so alive_at_frame is false from that frame on, on a
\* normal tick as on a tick inside a rollback.
C27_DeathAtMarkerFrame ==
    [][\A e \in Entities :
          /\ (ProcessingMarker(e) /\ IsSome(comp[e]) /\ halted' = "")
                 => (removedT'[e] /\ tw'[e])
          /\ (RecordingMarkerDeath(e) /\ pc' = "in_rollback")
                 => DeadFrom(ch'[e], Unwrap(marker[e].frame))]_vars

(* -------------------------------- C28 -------------------------------- *)
\* C28: an entity carrying a DespawnMarker with frame M is destroyed only in a state
\* whose clock has reached M + rollback_window, also when rollbacks rewound and
\* replayed the clock in between.
C28_NotDestroyedEarly ==
    [][\A e \in Entities :
          (exists[e] /\ ~exists'[e]) =>
              /\ marker[e].present /\ IsSome(marker[e].frame)
              /\ clock >= Unwrap(marker[e].frame) + RollbackWindow]_vars

\* an entity destroyed after a rollback that ended within its rollback window
C28_Witness ==
    \E e \in Entities :
        /\ ~exists[e] /\ pc = "first"
        /\ prevRb # None
        /\ Unwrap(prevRb).end >= clock - RollbackWindow + 1

(* -------------------------------- C29 -------------------------------- *)
\* e carries a DespawnMarker for frame M whose rollback window ends within the run,
\* and at least one more frame will be simulated
MarkedFor(e, M) ==
    /\ Running /\ exists[e]
    /\ marker[e].present /\ marker[e].frame = Some(M)
    /\ M + RollbackWindow <= budget.frames
    /\ clock < budget.frames

RevivedBy(e, r, D) ==
    /\ Running /\ exists[e] /\ tw[e]
    /\ marker[e].present /\ marker[e].frame = Some(D) /\ ~markerAdded[e]
    /\ ~CH_alive_at_frame(ch[e], D)
    /\ inputs.host_ops = 0
    /\ r.start - 1 < D /\ D <= r.end
    /\ IsSome(FB_get(ss[e], r.start - 1))

\* the value game logic derives for frame G from the authoritative value of frame S
ResimulatedFrom(e, S, G) == Some(Unwrap(FB_get(ss[e], S)) - (G - S))

\* the clock has been rewound: every state of a rollback but the one that requested it
Rewound == rb # None /\ ~(pc = "start_rollback" /\ Unwrap(rb).original_period = None)

\* C30: authoritative data for a frame before the despawn frame D of a soft-despawned
\* entity revives its value transiently: present on resimulated frames before D, removed
\* again at D, absent once the rollback has completed, with history up to D following
\* the authoritative value and nothing recorded after D.
C30_TransientRevival ==
    \A e \in Entities : \A D \in 1..MaxFrame :
        /\ (Rewound /\ RevivedBy(e, Unwrap(rb), D)) =>
               LET S == Unwrap(rb).start - 1
               IN  /\ clock < D => comp[e] = ResimulatedFrom(e, S, clock)
                   /\ (clock > D \/ (clock = D /\ pc \notin {"postfix_components",
                                                            "postfix_in_rollback"}))
                          => comp[e] = None
        /\ (rb = None /\ prevRb # None /\ RevivedBy(e, Unwrap(prevRb), D)) =>
               LET S == Unwrap(prevRb).start - 1
               IN  /\ comp[e] = None
                   /\ \A G \in S..D :
                          D - G < ch[e].values.capacity
                             => CH_at_frame(ch[e], G) = ResimulatedFrom(e, S, G)
                   /\ \A G \in (D + 1)..(MaxFrame + 2) : CH_at_frame(ch[e], G) = None

\* the rollback over, the entity still soft-despawned and its history rewritten
C30_Witness ==
    \E e \in Entities : \E D \in 2..MaxFrame :
        /\ rb = None /\ prevRb # None /\ RevivedBy(e, Unwrap(prevRb), D)
        /\ comp[e] = None
        /\ CH_at_frame(ch[e], D) = Some(ServerHealth - (D - (Unwrap(prevRb).start - 1)))

(* ------------- the systems of systems.rs: Anachronous entities --------- *)
\* One tick of this revision, as the values asserted by anachronous_ss_triggers_rollback
\* fix it: the game logic, then the recording of the frame, the completion check, the
\* snapshot systems, the consolidation and the initiation of a rollback.

\* opt_anach.map_or(0, |a| a.frames_behind)
frames_behind(e) == budget.frames_behind[e]

\* game_clock.frame().saturating_sub(frames_behind)
target_frame_of(e) == SatSub(clock, frames_behind(e))

\* faulty variant: the rollback starts at the snapshot's own frame
rollback_frame_of_snapshot(e) == snap_frame(e)

\* snap_frame + frames_behind
rollback_frame(e) == snap_frame(e) + frames_behind(e)

\* trigger_rollback_when_snapshot_added reaches rb_ev.send for e
snapshot_triggers(e) ==
    /\ tw[e] /\ ssChanged[e]
    /\ snap_frame(e) # 0
    /\ ~(snap_frame(e) > target_frame_of(e))

RECURSIVE systems_requests_from(_)
systems_requests_from(e) ==
    IF e \notin Entities THEN <<>>
    ELSE (IF snapshot_triggers(e) THEN <<rollback_frame(e)>> ELSE <<>>)
         \o systems_requests_from(e + 1)

\* inc_frame then take_damage
systems_game_logic ==
    /\ Running /\ pc = "first"
    /\ clock < budget.frames
    /\ pc' = "record_component_history"
    /\ clock' = clock + 1
    /\ comp' = [e \in Entities |->
                  IF IsSome(comp[e]) THEN Some(take_damage(Unwrap(comp[e]))) ELSE None]
    /\ UNCHANGED <<halted, fx, rb, prevRb, events, stats, config, budget, tw, ch, ss, ssChanged,
                   addedT, removedT, inputs, despawning, corr, wrappers, asked, trig, log>>

\* add_timewarp_buffer_components and record_component_history
systems_record_component_history ==
    /\ Running /\ pc = "record_component_history"
    /\ pc' = "check_for_rollback_completion"
    /\ ch' = [e \in Entities |->
                IF needs_timewarp_components(e)
                THEN CH_with_capacity(RollbackWindow, clock, Unwrap(comp[e]))
                ELSE record_component_history(ch[e], e)]
    /\ tw' = [e \in Entities |-> tw[e] \/ needs_timewarp_components(e)]
    /\ ss' = [e \in Entities |->
                IF needs_timewarp_components(e)
                THEN FB_with_capacity(RollbackWindow * SnapshotCapacityFactor)
                ELSE ss[e]]
    /\ ssChanged' = [e \in Entities |-> ssChanged[e] \/ needs_timewarp_components(e)]
    /\ addedT' = [e \in Entities |-> FALSE]
    /\ corr' = [e \in Entities |-> correction_after(e)]
    /\ UNCHANGED <<halted, control, config, budget, comp, removedT, inputs, despawning,
                   wrappers, asked, trig, log>>

\* check_for_rollback_completion: the clock has left range.start..range.end
systems_check_for_rollback_completion ==
    /\ Running /\ pc = "check_for_rollback_completion"
    /\ pc' = "trigger_rollback_when_snapshot_added"
    /\ IF rb # None /\ ~(Unwrap(rb).start <= clock /\ clock < Unwrap(rb).end)
       THEN /\ prevRb' = rb
            /\ fx' = restored_period(Unwrap(rb))
            /\ rb' = None
       ELSE UNCHANGED <<prevRb, fx, rb>>
    /\ UNCHANGED <<halted, clock, events, stats, config, budget, world, inputs, despawning,
                   corr, wrappers, asked, trig, log>>

\* apply_snapshot_to_component_if_available: the snapshot value for target_frame, if any
systems_apply_snapshot(e) ==
    IF tw[e] /\ IsSome(comp[e]) /\ snap_frame(e) # 0
    THEN FB_get(ss[e], target_frame_of(e))
    ELSE None

\* apply_snapshot_to_component_if_available and trigger_rollback_when_snapshot_added
systems_trigger_rollback_when_snapshot_added ==
    /\ Running /\ pc = "trigger_rollback_when_snapshot_added"
    /\ pc' = "consolidate_rollback_requests"
    /\ comp' = [e \in Entities |->
                  IF IsSome(systems_apply_snapshot(e)) THEN systems_apply_snapshot(e)
                  ELSE comp[e]]
    /\ ch' = [e \in Entities |->
                LET applied == IF IsSome(systems_apply_snapshot(e))
                               THEN CH_insert(ch[e], clock, Unwrap(systems_apply_snapshot(e)))
                               ELSE ch[e]
                IN  IF snapshot_triggers(e)
                    THEN CH_insert(applied, rollback_frame(e),
                                   Unwrap(FB_get(ss[e], snap_frame(e))))
                    ELSE applied]
    /\ events' = events \o systems_requests_from(FirstEntity)
    /\ ssChanged' = [e \in Entities |-> ssChanged[e] /\ ~tw[e]]
    /\ trig' = [e \in Entities |->
                  IF tw[e] /\ ssChanged[e] /\ snap_frame(e) # 0
                  THEN Some([frame |-> snap_frame(e), at |-> clock,
                             requested |-> snapshot_triggers(e)])
                  ELSE IF rb = None THEN None ELSE trig[e]]
    /\ UNCHANGED <<halted, clock, fx, rb, prevRb, stats, config, budget, tw, ss, addedT,
                   removedT, inputs, despawning, corr, wrappers, asked, log>>

\* consolidate_rollback_requests: the smallest requested frame, up to the clock
systems_consolidate_rollback_requests ==
    /\ Running /\ pc = "consolidate_rollback_requests"
    /\ pc' = "rollback_initiated"
    /\ IF events = <<>>
       THEN UNCHANGED rb
       ELSE rb' = Some(consolidate_rollback_requests(events, "Oldest", clock))
    /\ events' = <<>>
    /\ UNCHANGED <<halted, clock, fx, prevRb, stats, config, budget, world, inputs, despawning,
                   corr, wrappers, asked, trig, log>>

\* rollback_component of this revision: the value of e after it, read at range.start
systems_rollback_component(e, target) ==
    IF ~tw[e] THEN comp[e]
    ELSE IF ~CH_alive_at_frame(ch[e], target) THEN None
    ELSE IF IsSome(CH_at_frame(ch[e], target)) THEN CH_at_frame(ch[e], target)
    ELSE comp[e]

\* rollback_initiated, then rollback_component
systems_rollback_initiated ==
    /\ Running /\ pc = "rollback_initiated"
    /\ pc' = "first"
    /\ IF ~rollback_added
       THEN UNCHANGED <<clock, fx, rb, stats, comp, addedT, removedT>>
       ELSE /\ rb' = Some([Unwrap(rb) EXCEPT !.original_period = Some(fx)])
            /\ stats' = stats_after_initiation(stats)
            /\ fx' = ZeroPeriod
            /\ clock' = Unwrap(rb).start
            /\ comp' = [e \in Entities |-> systems_rollback_component(e, Unwrap(rb).start)]
            /\ addedT' = [e \in Entities |-> addedT[e] \/ (comp[e] = None /\ comp'[e] # None)]
            /\ removedT' = [e \in Entities |->
                              removedT[e] \/ (comp[e] # None /\ comp'[e] = None)]
    /\ UNCHANGED <<halted, prevRb, events, config, budget, tw, ch, ss, ssChanged, inputs,
                   despawning, corr, wrappers, asked, trig, log>>

\* runs with one entity simulated behind the clock and one not, or both behind
BudgetsAnach ==
    { [PlainRun(MaxSnapshots, 0) EXCEPT !.frames_behind = [e \in Entities |->
                                            IF e = FirstEntity THEN 2 ELSE 0]],
      [PlainRun(MaxSnapshots, 0) EXCEPT !.frames_behind = [e \in Entities |->
                                            IF e = FirstEntity THEN 1 ELSE 3]] }

InitAnach == Start(BudgetsAnach)

NextAnach ==
    \/ \E e \in Entities : \E f \in 1..clock : SnapshotArrives(e, f, ServerHealth)
    \/ systems_game_logic
    \/ systems_record_component_history
    \/ systems_check_for_rollback_completion
    \/ systems_trigger_rollback_when_snapshot_added
    \/ systems_consolidate_rollback_requests
    \/ systems_rollback_initiated

SpecAnach == InitAnach /\ [][NextAnach]_vars

(* ------------- TimewarpConfig::is_within_rollback_window --------------- *)
\* FrameNumber is u32: a frame number is kept as its two 16-bit halves
HalfWord == 65536
\* the frames tried lie within LowFrames of zero or within HighFrames of u32::MAX
LowFrames == 9
HighFrames == 2

U32(hi, lo) == [hi |-> hi, lo |-> lo]

U32_lt(a, b) == a.hi < b.hi \/ (a.hi = b.hi /\ a.lo < b.lo)

\* a - b modulo 2^32
U32_wrapping_sub(a, b) ==
    LET borrow == IF a.lo < b.lo THEN 1 ELSE 0
    IN  U32((a.hi - b.hi - borrow + HalfWord) % HalfWord, (a.lo - b.lo + HalfWord) % HalfWord)

\* target_frame > current_frame - self.rollback_window: the subtraction panics in a build
\* with overflow checks and wraps in a build without them
is_within_rollback_window(window, current_frame, target_frame, build) ==
    IF build = "checked" /\ U32_lt(current_frame, window) THEN "panic"
    ELSE IF U32_lt(U32_wrapping_sub(current_frame, window), target_frame) THEN "true"
    ELSE "false"

Builds == {"checked", "wrapping"}

Frames32 ==
    {U32(0, lo) : lo \in 0..LowFrames}
        \cup {U32(HalfWord - 1, HalfWord - 1 - d) : d \in 0..HighFrames}

\* the calls tried: every pair of frames with target_frame <= current_frame
WindowCalls ==
    UNION {{[current_frame |-> c, target_frame |-> t, answer |-> "pending"] :
                t \in {f \in Frames32 : ~U32_lt(c, f)}} : c \in Frames32}

InitWindow ==
    /\ pc = "is_within_rollback_window"
    /\ asked \in {Some(q) : q \in WindowCalls}
    /\ halted = ""
    /\ clock = 0
    /\ config = DefaultConfig
    /\ fx = NormalPeriod
    /\ rb = None
    /\ prevRb = None
    /\ events = <<>>
    /\ stats = [num_rollbacks |-> 0, range_faults |-> 0, non_rollback_updates |-> 0]
    /\ comp = [e \in Entities |-> Some(SpawnHealth)]
    /\ tw = [e \in Entities |-> FALSE]
    /\ ch = [e \in Entities |-> NoCH]
    /\ ss = [e \in Entities |-> NoSS]
    /\ ssChanged = [e \in Entities |-> FALSE]
    /\ addedT = [e \in Entities |-> TRUE]
    /\ removedT = [e \in Entities |-> FALSE]
    /\ inputs = [snapshots |-> 0, host_ops |-> 0, despawns |-> 0, icafs |-> 0,
                blueprints |-> 0]
    /\ budget = PlainRun(0, 0)
    /\ trig = [e \in Entities |-> None]
    /\ log = <<>>
    /\ exists = [e \in Entities |-> TRUE]
    /\ marker = [e \in Entities |-> NoMarker]
    /\ markerAdded = [e \in Entities |-> FALSE]
    /\ corr = [e \in Entities |-> None]
    /\ icaf = [e \in Entities |-> None]
    /\ abaf = [e \in Entities |-> None]
    /\ unpacked = [e \in Entities |-> None]

\* one call of is_within_rollback_window on the configured window
WindowQuery ==
    /\ pc = "is_within_rollback_window"
    /\ asked # NotAsked /\ Unwrap(asked).answer = "pending"
    /\ \E build \in Builds :
         asked' = Some([Unwrap(asked) EXCEPT !.answer =
                           is_within_rollback_window(U32(0, RollbackWindow),
                                                     Unwrap(asked).current_frame,
                                                     Unwrap(asked).target_frame, build)])
    /\ UNCHANGED <<pc, halted, control, config, budget, world, inputs, despawning, corr,
                   wrappers, trig, log>>

NextWindow == WindowQuery

SpecWindow == InitWindow /\ [][NextWindow]_vars

(* -------------------------------- C37 -------------------------------- *)
\* C37: remove_entries_newer_than(F) with F < newest_frame() makes newest_frame() = F,
\* empties every frame above F and leaves get(G) as it was for every G <= F, also for
\* an F below the buffer's window; the call does not abort.
C37_RemoveNewerKeepsOlder ==
    [][\A F \in {0} \cup BufferFrames :
          (/\ RemoveEntriesNewerThan(F)
           /\ F < FB_newest_frame(ss[FirstEntity]))
              => /\ halted' = ""
                 /\ FB_newest_frame(ss'[FirstEntity]) = F
                 /\ \A G \in Frames :
                        FB_get(ss'[FirstEntity], G) =
                            IF G > F THEN None ELSE FB_get(ss[FirstEntity], G)]_vars

(* -------------------------------- C39 -------------------------------- *)
\* e regained its value this tick, outside a rollback, with a history not born on the
\* previous frame
RegainedValue(e) ==
    /\ Running /\ pc = "postfix_components" /\ rb = None
    /\ birth_query(e) /\ ~born_last_frame(ch[e])

\* C39: on a non-rollback tick a birth is recorded at the current frame for every entity
\* that regained its value and whose history was not born on the previous frame,
\* whatever other entities the same tick processes.
C39_BirthRecordedForEach ==
    [][\A e \in Entities :
          (RegainedValue(e) /\ halted' = "")
              => CH_alive_at_frame(ch'[e], clock)]_vars
(* -------------------------------- C31 -------------------------------- *)
\* entity e lacked T when an InsertComponentAtFrame for a past frame inside the rollback
\* window was unpacked for it
PastInsert(e) ==
    /\ unpacked[e] # None
    /\ Unwrap(unpacked[e]).lacking
    /\ Unwrap(unpacked[e]).frame < Unwrap(unpacked[e]).at
    /\ Unwrap(unpacked[e]).at - (Unwrap(unpacked[e]).frame + 1) < RollbackWindow

\* the rollback that the insertion for e asked for is under way
ItsRollback(e) ==
    /\ PastInsert(e) /\ Running /\ rb # None
    /\ Unwrap(rb).end = Unwrap(unpacked[e]).at
    /\ stats.num_rollbacks = Unwrap(unpacked[e]).rollbacks + 1

\* the tick of the insertion raises its rollback
C31_Requested(e) ==
    (/\ PastInsert(e) /\ Running /\ pc = "start_rollback"
     /\ clock = Unwrap(unpacked[e]).at
     /\ stats.num_rollbacks = Unwrap(unpacked[e]).rollbacks)
        => /\ halted' = ""
           /\ rb' # None
           /\ Unwrap(rb').start <= Unwrap(unpacked[e]).frame + 1
           /\ stats'.num_rollbacks = stats.num_rollbacks + 1

\* every frame after F is resimulated with T present
C31_Resimulated(e) ==
    (ItsRollback(e) /\ pc = "game" /\ clock >= Unwrap(unpacked[e]).frame)
        => IsSome(comp[e])

\* what holds when its rollback completes, and no second rollback follows in that tick
C31_Completed(e) ==
    /\ (ItsRollback(e) /\ pc = "in_rollback" /\ clock = Unwrap(rb).end)
          => /\ halted' = "" /\ rb' = None
             /\ IsSome(comp'[e])
             /\ CH_at_frame(ch'[e], Unwrap(unpacked[e]).frame)
                    = Some(Unwrap(unpacked[e]).component)
             /\ (Unwrap(unpacked[e]).frame > 0 /\ Unwrap(unpacked[e]).before = None)
                    => CH_at_frame(ch'[e], Unwrap(unpacked[e]).frame - 1) = None
    /\ (/\ PastInsert(e) /\ Running /\ rb = None
        /\ pc \in {"apply_snapshots", "consolidate", "start_rollback"}
        /\ clock = Unwrap(unpacked[e]).at
        /\ stats.num_rollbacks = Unwrap(unpacked[e]).rollbacks + 1
        /\ ~config.force_rollback_always)
          => halted' = "" /\ rb' = None /\ IsSome(comp'[e])

\* C31: an InsertComponentAtFrame for a past frame F on an entity lacking T (it never had T,
\* or had it and lost it) raises one rollback covering F + 1 in that tick, every frame after F
\* is resimulated with T present, and when that rollback completes T is present, the history
\* at F holds the inserted value, it holds nothing at F - 1 if it held nothing there before,
\* and the completing tick raises no further rollback.
C31_InsertInPast ==
    [][\A e \in Entities : C31_Requested(e) /\ C31_Resimulated(e) /\ C31_Completed(e)]_vars
(* -------------------------------- C38 -------------------------------- *)
\* entity e carries a blueprint wrapped for frame F, a frame inside the rollback window
\* and not beyond the next one, and the run still has a tick to make
WrappedFor(e, F) ==
    /\ Running /\ BetweenTicks /\ exists[e]
    /\ abaf[e] # None /\ Unwrap(abaf[e]).frame = F
    /\ F <= clock + 1 /\ clock - F < RollbackWindow - 1
    /\ clock < budget.frames

Resimulating == Running /\ rb # None /\ Unwrap(rb).original_period # None

\* the value of e was first born at frame B, a frame of the range of the rollback under way
BornInRange(e, B) ==
    /\ Resimulating /\ exists[e] /\ tw[e]
    /\ ch[e].alive_ranges = << <<B, None>> >>
    /\ Unwrap(rb).start <= B /\ B <= Unwrap(rb).end

\* C32: a value born at frame B inside the range of a rollback is absent while the frames
\* before B are resimulated, reappears with the value recorded for B once frame B has been
\* resimulated, keeps that record throughout, is present on a still existing entity when
\* the rollback completes, and the frame after B is recorded as one step of game logic on
\* the value recorded for B.
C32_BornInsideRollback ==
    [][\A e \in Entities : \A B \in 1..MaxFrame :
          BornInRange(e, B) =>
              /\ halted' = ""
              /\ (pc = "game" /\ clock + 1 < B) => comp[e] = None
              /\ CH_at_frame(ch'[e], B) = CH_at_frame(ch[e], B)
              /\ (pc = "in_rollback" /\ clock = B)
                    => IsSome(comp'[e]) /\ comp'[e] = CH_at_frame(ch[e], B)
              /\ rb' = None => exists'[e] /\ IsSome(comp'[e])
              /\ (pc = "postfix_components" /\ clock = B + 1)
                    => CH_at_frame(ch'[e], clock)
                           = Some(take_damage(Unwrap(CH_at_frame(ch[e], B))))]_vars
(* -------------------------------- C34 -------------------------------- *)
\* the ServerSnapshot of e, written to since it was last looked at, holds for the past
\* frame f a value that differs from the history of e at f; no rollback has run and no
\* value was inserted for the current frame so far, so the history at f is the prediction
\* and the value has not been applied before
Unexamined(e, f) ==
    /\ Running /\ pc = "apply_snapshots" /\ rb = None
    /\ stats.num_rollbacks = 0 /\ stats.non_rollback_updates = 0
    /\ ~config.force_rollback_always
    /\ tw[e] /\ ssChanged[e]
    /\ f < clock /\ clock - f < RollbackWindow
    /\ FB_get(ss[e], f) # None
    /\ FB_get(ss[e], f) # CH_at_frame(ch[e], f)

\* C34: on a non-rollback tick every value in a written ServerSnapshot that differs from
\* the history at its frame is written over the history there and a rollback covering the
\* frame is requested, whether or not its frame is the newest one of the snapshot.
C34_EveryWrittenValueExamined ==
    [][\A e \in Entities : \A f \in 1..MaxFrame :
          Unexamined(e, f) =>
              /\ halted' = ""
              /\ CH_at_frame(ch'[e], f) = FB_get(ss[e], f)
              /\ \E i \in 1..Len(events') : events'[i] <= f + 1]_vars
(* -------------------------------- C35 -------------------------------- *)
\* the value of e has been alive and recorded on each of the last rollback_window frames
RecordedThroughWindow(e) ==
    /\ tw[e] /\ clock >= RollbackWindow
    /\ \A f \in (clock - RollbackWindow + 1)..clock :
          CH_alive_at_frame(ch[e], f) /\ CH_at_frame(ch[e], f) # None

\* a rollback the depth check lets through is about to be initiated
AcceptedRollback ==
    /\ Running /\ pc = "start_rollback" /\ rollback_added
    /\ ~rollback_too_deep(Unwrap(rb))

\* C35: when a rollback accepted by the depth check is initiated, the history of every
\* entity alive and recorded on each of the last rollback_window frames holds a value at
\* the frame restored from (range.start - 1), so the restore step does not stop the run
\* for want of a history value of such an entity.
C35_AcceptedRollbackFindsHistory ==
    AcceptedRollback =>
        \A e \in Entities :
            RecordedThroughWindow(e) =>
                /\ CH_at_frame(ch[e], reset_game_clock_to(Unwrap(rb))) # None
                /\ ~rollback_component_panics(e, reset_game_clock_to(Unwrap(rb)),
                                              Unwrap(rb).end)
(* -------------------------------- C36 -------------------------------- *)
\* the first Prefix::First after a rollback finds a removal of e's value that the
\* rollback made: the host has done nothing to e but give it its value
ResimulationRemoved(e) ==
    /\ Running /\ pc = "first" /\ rb = None
    /\ tw[e] /\ removedT[e]
    /\ e \in budget.bare /\ inputs.host_ops = 1 /\ ~marker[e].present

\* C36: no step taken while a Rollback is in progress changes the alive_ranges of a
\* ComponentHistory, so they are the same at completion as at initiation, and the first
\* tick after the rollback records no death for a removal the rollback made.
C36_LifetimesNotRewritten ==
    [][\A e \in Entities :
          /\ (Running /\ rb # None /\ tw[e]) => ch'[e].alive_ranges = ch[e].alive_ranges
          /\ ResimulationRemoved(e) => ch'[e].alive_ranges = ch[e].alive_ranges]_vars
(* -------------------------------- C40 -------------------------------- *)
\* the call recorded in asked has been answered
Answered == asked # NotAsked /\ Unwrap(asked).answer # "pending"

\* current_frame - target_frame < rollback_window, for target_frame <= current_frame
WithinWindow(q) ==
    U32_lt(U32_wrapping_sub(q.current_frame, q.target_frame), U32(0, RollbackWindow))

\* C40: for 32-bit frame numbers with target_frame <= current_frame,
\* is_within_rollback_window answers true exactly when current_frame - target_frame is
\* less than rollback_window, also when current_frame is less than rollback_window.
C40_WithinWindowExact ==
    Answered =>
        Unwrap(asked).answer = (IF WithinWindow(Unwrap(asked)) THEN "true" ELSE "false")
(* -------------------------------- C33 -------------------------------- *)
\* the changed ServerSnapshot of e holds a snapshot, whose frame is S = snap_frame(e)
SnapshotSeen(e) == tw[e] /\ ssChanged[e] /\ snap_frame(e) # 0

\* S <= clock - k, for the snapshot of e
SnapshotInReach(e) == SnapshotSeen(e) /\ snap_frame(e) + frames_behind(e) <= clock

\* the snapshot systems of a tick handle the requests as claimed
C33_Requests ==
    (Running /\ pc = "trigger_rollback_when_snapshot_added" /\ rb = None) =>
        /\ \A e \in Entities :
              SnapshotInReach(e) =>
                  \E i \in (Len(events) + 1)..Len(events') :
                      events'[i] = snap_frame(e) + frames_behind(e)
        /\ Len(events') - Len(events) = Cardinality({e \in Entities : SnapshotInReach(e)})

\* a rollback completes as claimed for the snapshot recorded in trig[e]
C33_Completed(e) ==
    (prevRb' # prevRb /\ trig[e] # None /\ Unwrap(trig[e]).requested) =>
        /\ Unwrap(prevRb').end = Unwrap(trig[e]).at
        /\ Unwrap(prevRb').start <= Unwrap(trig[e]).frame + frames_behind(e)
        /\ (\A o \in Entities \ {e} : trig[o] = None \/ ~Unwrap(trig[o]).requested)
              => Unwrap(prevRb').start = Unwrap(trig[e]).frame + frames_behind(e)

\* C33: for an entity simulated k frames behind the clock, a snapshot at frame S raises a
\* request for frame S + k when S <= clock - k and no request when S > clock - k; the
\* rollback, once complete, is PreviousRollback with end the clock at its initiation and
\* with start S + k (an earlier start only if another entity asked for one).
C33_AnachronousRollback ==
    [][C33_Requests /\ \A e \in Entities : C33_Completed(e)]_vars

\* a rollback requested for the snapshot at frame S of an entity two frames behind has
\* completed, from S + 2 to the clock at which it was initiated
C33_Witness ==
    /\ rb = None /\ prevRb # None
    /\ \E e \in Entities :
          /\ frames_behind(e) = 2
          /\ trig[e] # None /\ Unwrap(trig[e]).requested
          /\ Unwrap(prevRb).start = Unwrap(trig[e]).frame + 2
          /\ Unwrap(prevRb).end = Unwrap(trig[e]).at
          /\ Unwrap(prevRb).start < Unwrap(prevRb).end
====
